---- MODULE Spec2Model ----
(***************************************************************************)
(* Plantify: the identification pipeline (verify-plant, identify-plant,    *)
(* processImage) as a state machine.                                       *)
(*                                                                         *)
(* JavaScript values are tagged records; numbers are kept in tenths        *)
(* (0.5 is 5, 7 days is 70) so that the thresholds and defaults of the     *)
(* source are exact integers.                                              *)
(***************************************************************************)
EXTENDS Integers, Sequences, FiniteSets, TLC

(* ------------------------------------------------------------------ *)
(* Bounds                                                             *)
(* ------------------------------------------------------------------ *)
MaxRuns == 1

(* ------------------------------------------------------------------ *)
(* JavaScript values                                                  *)
(* ------------------------------------------------------------------ *)
Undef == [t |-> "undefined", n |-> 0, s |-> "", a |-> <<>>]
Null == [t |-> "null", n |-> 0, s |-> "", a |-> <<>>]
Bool(b) == [t |-> "boolean", n |-> IF b THEN 1 ELSE 0, s |-> "", a |-> <<>>]
Num(n) == [t |-> "number", n |-> n, s |-> "", a |-> <<>>]
Str(s) == [t |-> "string", n |-> 0, s |-> s, a |-> <<>>]
Arr(a) == [t |-> "array", n |-> 0, s |-> "", a |-> a]

\* JavaScript truthiness (the operand of !x and of x || y).
Truthy(x) ==
    CASE x.t = "undefined" -> FALSE
      [] x.t = "null" -> FALSE
      [] x.t = "boolean" -> x.n = 1
      [] x.t = "number" -> x.n # 0
      [] x.t = "string" -> x.s # ""
      [] OTHER -> TRUE

\* x || y
Or(x, y) == IF Truthy(x) THEN x ELSE y

\* x < n for a number literal n (in tenths): ToNumber, NaN compares false.
\* The non-empty strings of the model are not numeric, so they are NaN.
LessThan(x, n) ==
    CASE x.t = "undefined" -> FALSE
      [] x.t = "null" -> 0 < n
      [] x.t = "boolean" -> x.n * 10 < n
      [] x.t = "number" -> x.n < n
      [] x.t = "string" -> x.s = "" /\ 0 < n
      [] OTHER -> FALSE

\* Number to string, for a number kept in tenths.
NumToString(n) ==
    LET m == IF n < 0 THEN -n ELSE n
        body == IF m % 10 = 0
                THEN ToString(m \div 10)
                ELSE ToString(m \div 10) \o "." \o ToString(m % 10)
    IN IF n < 0 THEN "-" \o body ELSE body

RECURSIVE Join(_, _)
\* Array.prototype.join on an array of strings.
Join(a, sep) ==
    IF a = <<>> THEN ""
    ELSE IF Len(a) = 1 THEN a[1]
    ELSE a[1] \o sep \o Join(Tail(a), sep)

\* `${x}` in a template literal.
Template(x) ==
    CASE x.t = "undefined" -> "undefined"
      [] x.t = "null" -> "null"
      [] x.t = "boolean" -> IF x.n = 1 THEN "true" ELSE "false"
      [] x.t = "number" -> NumToString(x.n)
      [] x.t = "string" -> x.s
      [] OTHER -> Join(x.a, ",")

(* ------------------------------------------------------------------ *)
(* Objects: a function from every key of the model to a value; a key  *)
(* the object lacks reads as undefined, as in JavaScript.             *)
(* ------------------------------------------------------------------ *)
Keys == {"identified", "confidence", "commonName", "scientificName", "about",
         "explanation", "wateringFrequencyDays", "sunlight", "soilType",
         "nativeRegion", "careLevel", "isPlant", "fallback", "error",
         "apiError", "lowConfidence", "probability", "additionalInfo"}

EmptyObj == [k \in Keys |-> Undef]

\* An object literal given as a function on some of the keys.
Obj(f) == [k \in Keys |-> IF k \in DOMAIN f THEN f[k] ELSE Undef]

\* JSON.stringify followed by JSON.parse (the response body on the wire):
\* members whose value is undefined are dropped, every other value of the
\* model survives unchanged.  A dropped member reads as undefined again.
JsonRoundTrip(o) == [k \in Keys |-> IF o[k].t = "undefined" THEN Undef ELSE o[k]]

Response(status, body) == [status |-> status, body |-> JsonRoundTrip(body)]

(* ------------------------------------------------------------------ *)
(* Text returned by a model: a sequence of tokens.  "{" and "}" are   *)
(* the brace characters, a word is a run of text without braces, and  *)
(* an obj token is the members of one well-formed JSON object, i.e.   *)
(* the text between its braces.                                       *)
(* ------------------------------------------------------------------ *)
LBrace == [k |-> "{", w |-> <<>>, o |-> EmptyObj]
RBrace == [k |-> "}", w |-> <<>>, o |-> EmptyObj]
\* A word is given by its characters.
Word(w) == [k |-> "word", w |-> w, o |-> EmptyObj]
Members(o) == [k |-> "obj", w |-> <<>>, o |-> o]

\* content.match(/\{[\s\S]*\}/): greedy, from the first "{" to the last "}"
\* that follows it; <<>> when there is no match.
Match(content) ==
    LET opens == {i \in 1..Len(content) : content[i].k = "{"}
    IN IF opens = {} THEN <<>>
       ELSE LET first == CHOOSE i \in opens : \A j \in opens : i <= j
                closes == {i \in 1..Len(content) : content[i].k = "}" /\ i > first}
            IN IF closes = {} THEN <<>>
               ELSE LET last == CHOOSE i \in closes : \A j \in closes : i >= j
                    IN SubSeq(content, first, last)

\* JSON.parse of a matched text succeeds exactly on "{" members "}" and on
\* "{" "}"; anything else between the outer braces is a SyntaxError.
ParseOk(m) ==
    \/ Len(m) = 2 /\ m[1].k = "{" /\ m[2].k = "}"
    \/ Len(m) = 3 /\ m[1].k = "{" /\ m[2].k = "obj" /\ m[3].k = "}"

JsonParse(m) == IF Len(m) = 3 THEN m[2].o ELSE EmptyObj

(* ------------------------------------------------------------------ *)
(* identify-plant, Gemini variant                                     *)
(*                                                                    *)
(* reply is what the provider did: kind "throw" (fetch rejects),      *)
(* "status" (a non-2xx status), "badjson" (2xx whose body is not      *)
(* JSON, response.json() rejects), "ok" (2xx, JSON body; hasText      *)
(* tells whether candidates[0].content.parts[0].text exists and text  *)
(* is its tokens).                                                    *)
(* ------------------------------------------------------------------ *)
ConfidenceThreshold == 5

\* The additionalInfo array without the default of the watering line.
GeminiAdditionalInfo_NoWateringDefault(plantData) ==
    << "Watering: Every " \o Template(plantData["wateringFrequencyDays"]) \o " days",
       "Sunlight: " \o Template(Or(plantData["sunlight"], Str("Moderate indirect light"))),
       "Soil: " \o Template(Or(plantData["soilType"], Str("Well-draining potting mix"))),
       "Native to: " \o Template(Or(plantData["nativeRegion"], Str("Various regions"))),
       "Care Level: " \o Template(Or(plantData["careLevel"], Str("Moderate"))) >>

\* Lines 145-152: the additionalInfo array.
GeminiAdditionalInfo(plantData) ==
    << "Watering: Every " \o Template(Or(plantData["wateringFrequencyDays"], Num(70))) \o " days",
       "Sunlight: " \o Template(Or(plantData["sunlight"], Str("Moderate indirect light"))),
       "Soil: " \o Template(Or(plantData["soilType"], Str("Well-draining potting mix"))),
       "Native to: " \o Template(Or(plantData["nativeRegion"], Str("Various regions"))),
       "Care Level: " \o Template(Or(plantData["careLevel"], Str("Moderate"))) >>

\* The result object with about copied without its default.
GeminiResult_NoAboutDefault(plantData) ==
    Obj([commonName |-> Or(plantData["commonName"], Str("Unknown Plant")),
         scientificName |-> Or(plantData["scientificName"], Str("Species unknown")),
         about |-> plantData["about"],
         explanation |-> Or(Or(plantData["explanation"], plantData["about"]),
                            Str("No additional details available.")),
         additionalInfo |-> Arr(GeminiAdditionalInfo(plantData)),
         wateringFrequencyDays |-> Or(plantData["wateringFrequencyDays"], Num(70)),
         probability |-> Or(plantData["confidence"], Num(8))])

\* Lines 154-162: the result object.
GeminiResult(plantData) ==
    Obj([commonName |-> Or(plantData["commonName"], Str("Unknown Plant")),
         scientificName |-> Or(plantData["scientificName"], Str("Species unknown")),
         about |-> Or(plantData["about"], Str("A beautiful plant species.")),
         explanation |-> Or(Or(plantData["explanation"], plantData["about"]),
                            Str("No additional details available.")),
         additionalInfo |-> Arr(GeminiAdditionalInfo(plantData)),
         wateringFrequencyDays |-> Or(plantData["wateringFrequencyDays"], Num(70)),
         probability |-> Or(plantData["confidence"], Num(8))])

\* The gate without the test of identified.
GeminiGateRejects_ConfidenceOnly(plantData) ==
    LessThan(plantData["confidence"], ConfidenceThreshold)

\* Line 133: the confidence gate.
GeminiGateRejects(plantData) ==
    \/ ~Truthy(plantData["identified"])
    \/ LessThan(plantData["confidence"], ConfidenceThreshold)

\* Lines 132-169: gate, then result assembly.
GeminiGateAndAssemble(plantData) ==
    IF GeminiGateRejects(plantData)
    THEN Response(200, Obj([error |-> Str("Low confidence identification"),
                            lowConfidence |-> Bool(TRUE),
                            probability |-> Or(plantData["confidence"], Num(0))]))
    ELSE Response(200, GeminiResult(plantData))

\* The content check with a parse failure left to the outer catch block.
GeminiHandleContent_ParseThrows(hasText, text) ==
    IF ~hasText \/ text = <<>>
    THEN Response(200, Obj([error |-> Str("No identification result"),
                            lowConfidence |-> Bool(TRUE)]))
    ELSE IF Match(text) = <<>> \/ ~ParseOk(Match(text))
    THEN Response(500, Obj([error |-> Str("No JSON found in response"),
                            apiError |-> Bool(TRUE)]))
    ELSE GeminiGateAndAssemble(JsonParse(Match(text)))

\* Lines 105-130: content check, JSON extraction, then the gate.
GeminiHandleContent(hasText, text) ==
    IF ~hasText \/ text = <<>>
    THEN Response(200, Obj([error |-> Str("No identification result"),
                            lowConfidence |-> Bool(TRUE)]))
    ELSE IF Match(text) = <<>> \/ ~ParseOk(Match(text))
    THEN Response(200, Obj([error |-> Str("Failed to parse plant data"),
                            lowConfidence |-> Bool(TRUE)]))
    ELSE GeminiGateAndAssemble(JsonParse(Match(text)))

\* The non-2xx branch answering without a status option, hence with 200.
GeminiNotOk_Status200(status) ==
    Response(200, Obj([error |-> Str("Failed to identify plant. Please try again."),
                       apiError |-> Bool(TRUE)]))

\* Lines 79-100: the provider answered with a non-2xx status.
GeminiNotOk(status) ==
    IF status = 429
    THEN Response(429, Obj([error |-> Str("Rate limit exceeded. Please try again in a moment."),
                            apiError |-> Bool(TRUE)]))
    ELSE IF status = 403
    THEN Response(403, Obj([error |-> Str("Invalid API key. Please check your Gemini API key."),
                            apiError |-> Bool(TRUE)]))
    ELSE Response(status, Obj([error |-> Str("Failed to identify plant. Please try again."),
                               apiError |-> Bool(TRUE)]))

\* Lines 171-177: the catch block.
GeminiCatch(message) ==
    Response(500, Obj([error |-> Str(message), apiError |-> Bool(TRUE)]))

\* Lines 8-178: the whole handler.
IdentifyPlantGemini(imageBase64, keyConfigured, reply) ==
    IF ~Truthy(imageBase64)
    THEN Response(400, Obj([error |-> Str("Image data is required")]))
    ELSE IF ~keyConfigured
    THEN Response(500, Obj([error |-> Str("API key not configured"),
                            apiError |-> Bool(TRUE)]))
    ELSE CASE reply.kind = "throw" -> GeminiCatch("fetch failed")
           [] reply.kind = "status" -> GeminiNotOk(reply.status)
           [] reply.kind = "badjson" -> GeminiCatch("Unexpected token in JSON")
           [] OTHER -> GeminiHandleContent(reply.hasText, reply.text)

(* ------------------------------------------------------------------ *)
(* identify-plant, PlantID variant                                    *)
(*                                                                    *)
(* A description is a sequence of chunks; "." occurs only as the      *)
(* chunk "." and a space follows it only as the chunk " ", so the     *)
(* separator ". " is exactly the chunk "." followed by the chunk " ". *)
(* A suggestion is flattened: common_names, description (value) and   *)
(* watering_max read as plant_details?.x, undefined when any link of  *)
(* the chain is missing.                                              *)
(* ------------------------------------------------------------------ *)
RECURSIVE SplitOnDotSpace(_, _)
\* rawDescription.split('. '): the pieces, each a sequence of chunks.
SplitOnDotSpace(chunks, cur) ==
    IF chunks = <<>> THEN << cur >>
    ELSE IF Len(chunks) >= 2 /\ chunks[1] = "." /\ chunks[2] = " "
    THEN << cur >> \o SplitOnDotSpace(SubSeq(chunks, 3, Len(chunks)), <<>>)
    ELSE SplitOnDotSpace(Tail(chunks), Append(cur, chunks[1]))

\* .filter(s => s.length > 0), the pieces turned into strings.
Sentences(chunks) ==
    LET pieces == SplitOnDotSpace(chunks, <<>>)
        kept == SelectSeq(pieces, LAMBDA piece : piece # <<>>)
    IN [i \in 1..Len(kept) |-> Join(kept[i], "")]

\* slice taking the element at the end index as well.
Slice_Inclusive(a, from, to) ==
    SubSeq(a, from + 1, IF to + 1 < Len(a) THEN to + 1 ELSE Len(a))

\* sentences.slice(from, to) with 0-based from and exclusive to.
Slice(a, from, to) ==
    SubSeq(a, from + 1, IF to < Len(a) THEN to ELSE Len(a))

\* Lines 256-288: result assembly from the top suggestion.
PlantIDResult(topSuggestion) ==
    LET commonNames == Or(topSuggestion.common_names, Arr(<<>>))
        scientificName == Or(topSuggestion.plant_name, Str("Unknown"))
        rawDescription == IF topSuggestion.description.present
                             /\ topSuggestion.description.chunks # <<>>
                          THEN topSuggestion.description.chunks
                          ELSE << "No description available" >>
        watering == Or(topSuggestion.watering_max, Num(70))
        sentences == Sentences(rawDescription)
        about == Join(Slice(sentences, 0, 2), ". ") \o "."
        explanation == Join(Slice(sentences, 2, 6), ". ")
                       \o (IF Len(sentences) > 2 THEN "." ELSE "")
        firstCommon == IF commonNames.a = <<>> THEN Undef ELSE Str(commonNames.a[1])
    IN Obj([commonName |-> Or(firstCommon, scientificName),
            scientificName |-> scientificName,
            about |-> Str(about),
            explanation |-> Or(Str(explanation), Str(about)),
            additionalInfo |-> Arr(<< "Watering: Every " \o Template(watering) \o " days",
                                      "Sunlight: Moderate to bright indirect light",
                                      "Soil: Well-draining potting mix",
                                      "Growth: Moderate growth rate",
                                      "Native: Varies by species" >>),
            wateringFrequencyDays |-> watering,
            probability |-> Or(topSuggestion.probability, Num(0))])

\* Lines 245-293: top suggestion, 404 when there is none.
PlantIDHandleData(hasSuggestions, suggestions) ==
    IF ~hasSuggestions \/ suggestions = <<>>
    THEN Response(404, Obj([error |-> Str("No plant identified")]))
    ELSE Response(200, PlantIDResult(suggestions[1]))

\* Lines 187-302: the whole handler.
IdentifyPlantPlantID(imageBase64, keyConfigured, reply) ==
    IF ~Truthy(imageBase64)
    THEN Response(400, Obj([error |-> Str("Image data is required")]))
    ELSE IF ~keyConfigured
    THEN Response(500, Obj([error |-> Str("API key not configured")]))
    ELSE CASE reply.kind = "throw" -> Response(500, Obj([error |-> Str("fetch failed")]))
           [] reply.kind = "status" ->
                Response(reply.status, Obj([error |-> Str("Failed to identify plant")]))
           [] reply.kind = "badjson" ->
                Response(500, Obj([error |-> Str("Unexpected token in JSON")]))
           [] OTHER -> PlantIDHandleData(reply.hasSuggestions, reply.suggestions)

(* ------------------------------------------------------------------ *)
(* verify-plant                                                       *)
(* ------------------------------------------------------------------ *)
\* The characters of a token, as far as the keyword search can tell them
\* apart: an object's members are written with their key names, and a
\* boolean member with true or false.
TokenChars(tok) ==
    CASE tok.k = "{" -> << "{" >>
      [] tok.k = "}" -> << "}" >>
      [] tok.k = "word" -> tok.w
      [] OTHER ->
           (IF tok.o["isPlant"].t = "undefined" THEN <<>>
            ELSE << "i", "s", "P", "l", "a", "n", "t", ":" >>
                 \o (IF tok.o["isPlant"].t = "boolean"
                     THEN IF tok.o["isPlant"].n = 1
                          THEN << "t", "r", "u", "e" >>
                          ELSE << "f", "a", "l", "s", "e" >>
                     ELSE << "0" >>))
           \o (IF tok.o["confidence"].t = "undefined" THEN <<>>
               ELSE << "c", "o", "n", "f", "i", "d", "e", "n", "c", "e", ":", "0" >>)

RECURSIVE ContentChars(_)
ContentChars(content) ==
    IF content = <<>> THEN <<>>
    ELSE TokenChars(Head(content)) \o ContentChars(Tail(content))

\* String.prototype.toLowerCase, character by character.
LowerChar(c) ==
    CASE c = "A" -> "a" [] c = "E" -> "e" [] c = "F" -> "f" [] c = "L" -> "l"
      [] c = "N" -> "n" [] c = "O" -> "o" [] c = "P" -> "p" [] c = "R" -> "r"
      [] c = "T" -> "t" [] c = "U" -> "u" [] c = "W" -> "w" [] c = "Y" -> "y"
      [] c = "S" -> "s" [] c = "C" -> "c" [] c = "I" -> "i"
      [] OTHER -> c

ToLowerCase(chars) == [i \in 1..Len(chars) |-> LowerChar(chars[i])]

\* String.prototype.includes
Includes(chars, sub) ==
    \E i \in 0..(Len(chars) - Len(sub)) : SubSeq(chars, i + 1, i + Len(sub)) = sub

\* Lines 390-392: the keyword fallback.
KeywordIsPlant(content) ==
    LET lowerContent == ToLowerCase(ContentChars(content))
    IN \/ Includes(lowerContent, << "t", "r", "u", "e" >>)
       \/ Includes(lowerContent, << "p", "l", "a", "n", "t" >>)
       \/ Includes(lowerContent, << "l", "e", "a", "f" >>)
       \/ Includes(lowerContent, << "f", "l", "o", "w", "e", "r" >>)

\* Lines 366-374: the classifier answered with a non-2xx status.
VerifyNotOk ==
    Response(200, Obj([isPlant |-> Bool(TRUE), confidence |-> Num(5),
                       fallback |-> Bool(TRUE)]))

\* The catch block of verify-plant answering as the one of identify-plant.
VerifyCatch_Propagates ==
    Response(500, Obj([error |-> Str("fetch failed")]))

\* Lines 402-409: the catch block.
VerifyCatch ==
    Response(200, Obj([isPlant |-> Bool(TRUE), confidence |-> Num(5),
                       error |-> Bool(TRUE)]))

\* Lines 379-400: parse of the classifier's text.
VerifyHandleContent(content) ==
    LET initial == Obj([isPlant |-> Bool(TRUE), confidence |-> Num(5)])
        jsonMatch == Match(content)
    IN IF jsonMatch = <<>>
       THEN Response(200, initial)
       ELSE IF ParseOk(jsonMatch)
       THEN Response(200, JsonParse(jsonMatch))
       ELSE Response(200, [initial EXCEPT !["isPlant"] = Bool(KeywordIsPlant(content))])

\* Lines 311-410: the whole handler.  reply.content is <<>> when
\* choices[0].message.content is missing or empty (the || '' of line 379).
VerifyPlant(imageBase64, keyConfigured, reply) ==
    IF ~Truthy(imageBase64)
    THEN Response(400, Obj([error |-> Str("Image data is required")]))
    ELSE IF ~keyConfigured
    THEN Response(500, Obj([error |-> Str("API key not configured")]))
    ELSE CASE reply.kind = "throw" -> VerifyCatch
           [] reply.kind = "status" -> VerifyNotOk
           [] reply.kind = "badjson" -> VerifyCatch
           [] OTHER -> VerifyHandleContent(reply.content)

(* ------------------------------------------------------------------ *)
(* Inputs: what the classifier and the identification provider may    *)
(* answer.                                                            *)
(* ------------------------------------------------------------------ *)
Reply(kind, status, hasBody, content, suggestions) ==
    [kind |-> kind, status |-> status, hasText |-> hasBody, text |-> content,
     content |-> content, hasSuggestions |-> hasBody, suggestions |-> suggestions]

NoReply == Reply("none", 0, FALSE, <<>>, <<>>)

FailureReplies ==
    {Reply("throw", 0, FALSE, <<>>, <<>>), Reply("badjson", 200, FALSE, <<>>, <<>>)}
    \cup {Reply("status", st, FALSE, <<>>, <<>>) : st \in {403, 429, 500}}

\* Objects a classifier may write.
VerifyObjects ==
    {Obj([isPlant |-> Bool(TRUE), confidence |-> Num(9)]),
     Obj([isPlant |-> Bool(FALSE), confidence |-> Num(9)]),
     Obj([confidence |-> Num(9)])}

YesPlant == << "Y", "e", "s", " ", "P", "L", "A", "N", "T" >>
NoCar == << "N", "o", ",", " ", "c", "a", "r" >>

\* Texts around an object o: bare, fenced in prose, with unquoted junk
\* instead of members, twice, and without braces at all.
TextsAround(o) ==
    {<< LBrace, Members(o), RBrace >>,
     << Word(NoCar), LBrace, Members(o), RBrace, Word(NoCar) >>,
     << LBrace, Members(o), RBrace, Word(NoCar), LBrace, Members(o), RBrace >>}

PlainTexts ==
    {<<>>,
     << LBrace, RBrace >>,
     << Word(YesPlant) >>,
     << Word(NoCar) >>,
     << LBrace, Word(YesPlant), RBrace >>,
     << LBrace, Word(NoCar), RBrace >>,
     << RBrace, Word(NoCar), LBrace >>}

VerifyReplies ==
    FailureReplies
    \cup {Reply("ok", 200, TRUE, c, <<>>) :
            c \in PlainTexts \cup UNION {TextsAround(o) : o \in VerifyObjects}}

\* Objects an identification model may write: every gate input, with all
\* the descriptive members or with none of them.
FullPlant ==
    Obj([commonName |-> Str("Rose"), scientificName |-> Str("Rosa"),
         about |-> Str("A flowering shrub."), explanation |-> Str("It has thorns."),
         wateringFrequencyDays |-> Num(50), sunlight |-> Str("Full sun"),
         soilType |-> Str("Loam"), nativeRegion |-> Str("Asia"),
         careLevel |-> Str("Easy")])

GateInputs ==
    {[identified |-> i, confidence |-> c] :
        i \in {Undef, Bool(FALSE), Bool(TRUE)},
        c \in {Undef, Num(3), Num(5), Num(9)}}

GeminiObjects ==
    {[base EXCEPT !["identified"] = g.identified, !["confidence"] = g.confidence] :
        base \in {FullPlant, EmptyObj}, g \in GateInputs}

GeminiReplies ==
    FailureReplies
    \cup {Reply("ok", 200, FALSE, <<>>, <<>>)}
    \cup {Reply("ok", 200, TRUE, c, <<>>) :
            c \in PlainTexts
                  \cup {<< LBrace, Members(o), RBrace >> : o \in GeminiObjects}
                  \cup UNION {TextsAround(o) :
                        o \in {[FullPlant EXCEPT !["identified"] = Bool(TRUE),
                                                 !["confidence"] = Num(9)],
                               [FullPlant EXCEPT !["identified"] = Bool(FALSE),
                                                 !["confidence"] = Num(9)],
                               [FullPlant EXCEPT !["identified"] = Bool(TRUE),
                                                 !["confidence"] = Num(3)]}}}

NoDescription == [present |-> FALSE, chunks |-> <<>>]
RosaDescription ==
    [present |-> TRUE,
     chunks |-> << "A flowering shrub", ".", " ", "It has thorns", ".", " ",
                   "It blooms in summer", ".", " ", "It needs full sun", "." >>]

Suggestion(name, probability, commonNames, description, wateringMax) ==
    [plant_name |-> name, probability |-> probability, common_names |-> commonNames,
     description |-> description, watering_max |-> wateringMax]

BareSuggestion == Suggestion(Undef, Undef, Undef, NoDescription, Undef)

PlantIDSuggestions ==
    {BareSuggestion}
    \cup {Suggestion(Str("Rosa"), p, Arr(<< "Rose" >>), RosaDescription, Num(50)) :
            p \in {Num(3), Num(9)}}

PlantIDReplies ==
    FailureReplies
    \cup {Reply("ok", 200, FALSE, <<>>, <<>>), Reply("ok", 200, TRUE, <<>>, <<>>)}
    \cup {Reply("ok", 200, TRUE, <<>>, << sg >>) : sg \in PlantIDSuggestions}

\* What reaches one invocation of an edge function: reached is FALSE when
\* the request never gets an answer from the function.  The provider is
\* called only with an image and a configured key.
Call(reached, key, reply) == [reached |-> reached, key |-> key, reply |-> reply]

NoCall == Call(FALSE, FALSE, NoReply)

Calls(imageBase64, replies) ==
    {Call(FALSE, TRUE, NoReply), Call(TRUE, FALSE, NoReply)}
    \cup (IF Truthy(imageBase64)
          THEN {Call(TRUE, TRUE, reply) : reply \in replies}
          ELSE {Call(TRUE, TRUE, NoReply)})

\* What the model remembers of a call once the function has answered it:
\* of an object in the text only the members the gates read.
GateKeys == {"identified", "confidence", "isPlant"}

Remembered(call) ==
    [call EXCEPT !.reply.text =
        [i \in 1..Len(@) |-> [@[i] EXCEPT !.o = [k \in Keys |-> IF k \in GateKeys THEN @[k] ELSE Undef]]],
                 !.reply.content = <<>>]

\* What the model remembers of a call to verify-plant once the run has read
\* its answer: whether the function was reached and whether its classifier
\* failed ("throw", "status" and "badjson" become "failed").
Forgotten(call) ==
    Call(call.reached, TRUE,
         Reply(IF call.reply.kind \in {"throw", "status", "badjson"}
               THEN "failed" ELSE call.reply.kind,
               0, FALSE, <<>>, <<>>))

\* What the model remembers of the answer of verify-plant once the run has
\* read it: whether the status was 2xx, and the members isPlant and fallback.
ForgottenResponse(response) ==
    [status |-> IF response.status >= 200 /\ response.status <= 299 THEN 200 ELSE 0,
     body |-> [k \in Keys |-> IF k \in {"isPlant", "fallback"} THEN response.body[k] ELSE Undef]]

NoResponse == [status |-> 0, body |-> EmptyObj]

\* supabase.functions.invoke: { data, error }.  error is set when no
\* answer came back or when the status is not 2xx; data is the parsed body
\* otherwise.
Invoke(call, response) ==
    IF ~call.reached \/ response.status < 200 \/ response.status > 299
    THEN [data |-> EmptyObj, hasData |-> FALSE, error |-> TRUE]
    ELSE [data |-> response.body, hasData |-> TRUE, error |-> FALSE]

(* ------------------------------------------------------------------ *)
(* processImage (PlantIdentifier.tsx)                                 *)
(* ------------------------------------------------------------------ *)
VARIABLES
    provider,     \* which identify-plant variant is deployed
    loading,      \* useState: loading
    loadingStep,  \* useState: loadingStep
    preview,      \* useState: preview; 0 is null, r > 0 the preview of run r
    pc,           \* where each run of processImage stands
    file,         \* the file each run was given, "read" once it is encoded
    base64,       \* the encoded image of each run
    vIn,          \* what reached verify-plant for the run's call
    vResp,        \* the HTTP response of verify-plant to the run's call
    iIn,          \* what reached identify-plant for the run's call
    iResp,        \* the HTTP response of identify-plant to the run's call
    invoked,      \* the functions each run has invoked, in order
    log,          \* the callbacks each run has made, in order
    result,       \* Index, useState: result; 0 is null, r > 0 the result of run r
    normStage,    \* normalizer on its own: "input", "answered", "delivered"
    normReply,    \* normalizer on its own: the provider's reply
    normResp,     \* normalizer on its own: the response of identify-plant
    normLog,      \* normalizer on its own: the callbacks of the client
    tz,           \* the browser's time zone: its offset changes at most once
    now,          \* the clock, in hours
    plants,       \* the rows of public.plants
    session,      \* the signed-in user of the browser
    tasks,        \* Dashboard, useState: tasks
    dashLoading,  \* Dashboard, useState: loading
    fetched,      \* Dashboard: the data of the last successful query
    tasksAt,      \* Dashboard: the time at which tasks was computed
    cards,        \* MyPlants: the cards of the last render of the list
    myLoading,    \* MyPlants, useState: loading
    cardsAt,      \* MyPlants: the time at which cards was computed
    rlsLast,      \* the last statement on public.plants and its outcome
    camMounted,   \* CameraCapture is mounted
    facingMode,   \* CameraCapture, useState: facingMode
    stream,       \* CameraCapture, useState: stream; 0 is null
    camError,     \* CameraCapture, useState: error is not null
    effectStream, \* the stream seen by the closures of the last effect
    camVideo,     \* videoRef.current.srcObject; 0 when there is none
    camRequests,  \* the calls of getUserMedia made so far
    camPending,   \* the calls of getUserMedia not yet settled
    camLive,      \* the acquired streams that have a live track
    camEnded,     \* how the component ended: "closed", "captured", "unmounted"
    page,         \* the page on display: "index", "my-plants", "dashboard"
    saving,       \* Index, useState: saving
    inflight,     \* the requests to the store that wait for their answer
    ops,          \* the water, complete and delete requests made so far
    toast,        \* the last toast shown
    loadFailed    \* console.error was called for a failed query of the list

runVars == << loading, loadingStep, preview, pc, file, base64,
              vIn, vResp, iIn, iResp, invoked, log >>

pipeVars == << runVars, result >>

normVars == << normStage, normReply, normResp, normLog >>

schedVars == << tz, now, session, tasks, dashLoading, fetched, tasksAt,
                cards, myLoading, cardsAt >>

homeVars == << schedVars, plants, rlsLast >>

camVars == << camMounted, facingMode, stream, camError, effectStream, camVideo,
              camRequests, camPending, camLive, camEnded >>

careVars == << page, saving, inflight, ops, toast, loadFailed >>

otherVars == << camVars, careVars >>

vars == << provider, pipeVars, normVars, homeVars, otherVars >>

Runs == 1..MaxRuns

NotAPlantMessage == "Oops! This doesn't look like a plant. Please try again with a clear photo of a leaf or flower"
LowConfidenceMessage == "I couldn't confidently recognize any plant in this photo. Try again with a clearer image."
FailedMessage == "Failed to identify plant. Please try again."

OnError(message) == [cb |-> "onError", message |-> message, data |-> EmptyObj, imageUrl |-> 0]
\* onIdentified handed the preview on display instead of the run's own.
OnIdentified_SharedPreview(data, previewUrl) ==
    [cb |-> "onIdentified", message |-> "", data |-> data, imageUrl |-> preview]

\* Lines 121-124.
OnIdentified(data, previewUrl) ==
    [cb |-> "onIdentified", message |-> "", data |-> data, imageUrl |-> previewUrl]

PipeInit ==
    /\ provider \in {"gemini", "plantid"}
    /\ loading = FALSE
    /\ loadingStep = ""
    /\ preview = 0
    /\ pc = [r \in Runs |-> "idle"]
    /\ file = [r \in Runs |-> "none"]
    /\ base64 = [r \in Runs |-> Undef]
    /\ vIn = [r \in Runs |-> NoCall]
    /\ vResp = [r \in Runs |-> NoResponse]
    /\ iIn = [r \in Runs |-> NoCall]
    /\ iResp = [r \in Runs |-> NoResponse]
    /\ invoked = [r \in Runs |-> <<>>]
    /\ log = [r \in Runs |-> <<>>]
    /\ result = 0

NormIdle ==
    /\ normStage = "idle"
    /\ normReply = NoReply
    /\ normResp = NoResponse
    /\ normLog = <<>>

\* No statement yet on public.plants.
NoStatement == [actor |-> "anon", kind |-> "none", ok |-> TRUE, returned |-> {}]

\* The pages Dashboard and MyPlants are not open and the table is empty.
HomeIdle ==
    /\ tz = [kind |-> "none", at |-> 0]
    /\ now = 0
    /\ plants = {}
    /\ session = "anon"
    /\ tasks = <<>>
    /\ dashLoading = TRUE
    /\ fetched = <<>>
    /\ tasksAt = 0
    /\ cards = <<>>
    /\ myLoading = TRUE
    /\ cardsAt = 0
    /\ rlsLast = NoStatement

\* No camera is open.
CamIdle ==
    /\ camMounted = FALSE
    /\ facingMode = "environment"
    /\ stream = 0
    /\ camError = FALSE
    /\ effectStream = 0
    /\ camVideo = 0
    /\ camRequests = 0
    /\ camPending = {}
    /\ camLive = {}
    /\ camEnded = ""

\* No request was made to the store.
CareIdle ==
    /\ page = "index"
    /\ saving = FALSE
    /\ inflight = {}
    /\ ops = 0
    /\ toast = ""
    /\ loadFailed = FALSE

OtherIdle == CamIdle /\ CareIdle

Init == PipeInit /\ NormIdle /\ HomeIdle /\ OtherIdle

\* Line 155: the drop zone and the buttons are rendered unless the preview
\* with the spinner is.
DropZoneRendered == ~(preview # 0 /\ loading)

\* The next run not yet started.
Fresh(r) == pc[r] = "idle" /\ \A q \in Runs : q < r => pc[q] # "idle"

\* Lines 61-63: processImage up to its first await.
ProcessImageStart(r, f) ==
    /\ loading' = TRUE
    /\ loadingStep' = "Preparing image..."
    /\ pc' = [pc EXCEPT ![r] = "reading"]
    /\ file' = [file EXCEPT ![r] = f]
    /\ UNCHANGED << provider, otherVars, homeVars, normVars, result, preview, base64, vIn, vResp, iIn, iResp, invoked, log >>

\* Lines 41-48: a file is dropped; only a file of an image type starts a run.
handleDrop(r) ==
    /\ Fresh(r)
    /\ DropZoneRendered
    /\ \E f \in {"image", "empty", "unreadable"} : ProcessImageStart(r, f)

\* Lines 50-54: a file is chosen through the Upload button, which is
\* disabled while loading.  The type of the file is not looked at.
handleFileSelect(r) ==
    /\ Fresh(r)
    /\ DropZoneRendered
    /\ ~loading
    /\ \E f \in {"image", "empty", "unreadable", "document"} : ProcessImageStart(r, f)

\* Lines 67-91: both readers end.  A reader that failed has result null,
\* result.split throws inside onloadend and base64Promise never settles.
\* An empty file has no text after the comma.
ReadDone(r) ==
    /\ pc[r] = "reading"
    /\ IF file[r] = "unreadable"
       THEN /\ pc' = [pc EXCEPT ![r] = "hung"]
            /\ UNCHANGED << preview, loadingStep, base64, invoked, file >>
       ELSE /\ base64' = [base64 EXCEPT ![r] =
                            IF file[r] = "empty" THEN Undef ELSE Str("b64")]
            /\ file' = [file EXCEPT ![r] = "read"]
            /\ preview' = r
            /\ loadingStep' = "Checking if this is a plant..."
            /\ invoked' = [invoked EXCEPT ![r] = Append(@, "verify-plant")]
            /\ pc' = [pc EXCEPT ![r] = "verifying"]
    /\ UNCHANGED << provider, otherVars, homeVars, normVars, result, loading, vIn, vResp, iIn, iResp, log >>

\* Lines 85-87: the await of verify-plant ends with the answer to call.
VerifyAnswers(r, call) ==
    /\ pc[r] = "verifying"
    /\ vIn' = [vIn EXCEPT ![r] = call]
    /\ vResp' = [vResp EXCEPT ![r] =
                   IF call.reached
                   THEN VerifyPlant(base64[r], call.key, call.reply)
                   ELSE NoResponse]
    /\ pc' = [pc EXCEPT ![r] = "verified"]
    /\ UNCHANGED << provider, otherVars, homeVars, normVars, result, loading, loadingStep, preview, file, base64,
                    iIn, iResp, invoked, log >>

\* The verify-plant function answers the run's call (or no answer comes).
VerifyServe(r) ==
    /\ pc[r] = "verifying"
    /\ \E call \in Calls(base64[r], VerifyReplies) : VerifyAnswers(r, call)

\* The test of isPlant without its negation.
RejectsAsNotAPlant_Unnegated(res) ==
    /\ ~res.error
    /\ res.hasData
    /\ Truthy(res.data["isPlant"])

\* A failed verification treated as a rejection.
RejectsAsNotAPlant_FailClosed(res) ==
    \/ res.error
    \/ res.hasData /\ ~Truthy(res.data["isPlant"])

\* Lines 93-101: is the run rejected as not a plant?
RejectsAsNotAPlant(res) ==
    /\ ~res.error
    /\ res.hasData
    /\ ~Truthy(res.data["isPlant"])

\* Lines 93-107 (and 131-134 on the early return).
AfterVerify(r) ==
    /\ pc[r] = "verified"
    /\ LET res == Invoke(vIn[r], vResp[r])
       IN IF RejectsAsNotAPlant(res)
          THEN /\ preview' = 0
               /\ log' = [log EXCEPT ![r] = Append(@, OnError(NotAPlantMessage))]
               /\ loading' = FALSE
               /\ loadingStep' = ""
               /\ pc' = [pc EXCEPT ![r] = "done"]
               /\ UNCHANGED invoked
          ELSE /\ loadingStep' = "Identifying plant..."
               /\ invoked' = [invoked EXCEPT ![r] = Append(@, "identify-plant")]
               /\ pc' = [pc EXCEPT ![r] = "identifying"]
               /\ UNCHANGED << preview, log, loading >>
    /\ vIn' = [vIn EXCEPT ![r] = Forgotten(@)]
    /\ vResp' = [vResp EXCEPT ![r] = ForgottenResponse(@)]
    /\ UNCHANGED << provider, otherVars, homeVars, normVars, result, file, base64, iIn, iResp >>

\* The deployed identify-plant.
IdentifyPlant(imageBase64, keyConfigured, reply) ==
    IF provider = "gemini"
    THEN IdentifyPlantGemini(imageBase64, keyConfigured, reply)
    ELSE IdentifyPlantPlantID(imageBase64, keyConfigured, reply)

\* Lines 105-107: the await of identify-plant ends with the answer to call.
IdentifyAnswers(r, call) ==
    /\ pc[r] = "identifying"
    /\ iIn' = [iIn EXCEPT ![r] = Remembered(call)]
    /\ iResp' = [iResp EXCEPT ![r] =
                   IF call.reached
                   THEN IdentifyPlant(base64[r], call.key, call.reply)
                   ELSE NoResponse]
    /\ pc' = [pc EXCEPT ![r] = "identified"]
    /\ UNCHANGED << provider, otherVars, homeVars, normVars, result, loading, loadingStep, preview, file, base64,
                    vIn, vResp, invoked, log >>

\* The identify-plant function answers the run's call (or no answer comes).
IdentifyServe(r) ==
    /\ pc[r] = "identifying"
    /\ \E call \in Calls(base64[r], IF provider = "gemini" THEN GeminiReplies
                                                           ELSE PlantIDReplies) :
         IdentifyAnswers(r, call)

\* The low-confidence branch without its return.
ClientCallbacks_NoReturn(res, previewUrl) ==
    IF res.error
    THEN << OnError(FailedMessage) >>
    ELSE (IF res.hasData /\ Truthy(res.data["lowConfidence"])
          THEN << OnError(LowConfidenceMessage) >> ELSE <<>>)
         \o (IF res.hasData /\ Truthy(res.data["commonName"])
             THEN << OnIdentified(res.data, previewUrl) >>
             ELSE << OnError(LowConfidenceMessage) >>)

\* Lines 109-130: the callbacks made for an answer of identify-plant.
ClientCallbacks(res, previewUrl) ==
    IF res.error
    THEN << OnError(FailedMessage) >>
    ELSE IF res.hasData /\ Truthy(res.data["lowConfidence"])
    THEN << OnError(LowConfidenceMessage) >>
    ELSE IF res.hasData /\ Truthy(res.data["commonName"])
    THEN << OnIdentified(res.data, previewUrl) >>
    ELSE << OnError(LowConfidenceMessage) >>

\* onIdentified is setResult (part_001 421): one of the callbacks hands a
\* result to Index.
Delivers(callbacks) == \E i \in 1..Len(callbacks) : callbacks[i].cb = "onIdentified"

\* processImage invoking identify-plant a second time when the first call
\* failed.
AfterIdentify_Retry(r) ==
    /\ pc[r] = "identified"
    /\ LET res == Invoke(iIn[r], iResp[r])
       IN IF res.error /\ Len(invoked[r]) < 3
          THEN /\ invoked' = [invoked EXCEPT ![r] = Append(@, "identify-plant")]
               /\ pc' = [pc EXCEPT ![r] = "identifying"]
               /\ UNCHANGED << log, result, preview, loading, loadingStep >>
          ELSE /\ log' = [log EXCEPT ![r] = @ \o ClientCallbacks(res, r)]
               /\ result' = IF Delivers(ClientCallbacks(res, r)) THEN r ELSE result
               /\ preview' = IF ~res.error /\ res.hasData /\ Truthy(res.data["lowConfidence"])
                             THEN 0 ELSE preview
               /\ loading' = FALSE
               /\ loadingStep' = ""
               /\ pc' = [pc EXCEPT ![r] = "done"]
               /\ UNCHANGED invoked
    /\ UNCHANGED << provider, otherVars, homeVars, normVars, file, base64, vIn, vResp, iIn, iResp >>

\* Lines 109-134.
AfterIdentify(r) ==
    /\ pc[r] = "identified"
    /\ LET res == Invoke(iIn[r], iResp[r])
       IN /\ log' = [log EXCEPT ![r] = @ \o ClientCallbacks(res, r)]
          /\ result' = IF Delivers(ClientCallbacks(res, r)) THEN r ELSE result
          /\ preview' = IF ~res.error /\ res.hasData /\ Truthy(res.data["lowConfidence"])
                        THEN 0 ELSE preview
    /\ loading' = FALSE
    /\ loadingStep' = ""
    /\ pc' = [pc EXCEPT ![r] = "done"]
    /\ UNCHANGED << provider, otherVars, homeVars, normVars, file, base64, vIn, vResp, iIn, iResp, invoked >>

Next ==
    \E r \in Runs :
        \/ handleDrop(r)
        \/ handleFileSelect(r)
        \/ ReadDone(r)
        \/ VerifyServe(r)
        \/ AfterVerify(r)
        \/ IdentifyServe(r)
        \/ AfterIdentify(r)

Spec == Init /\ [][Next]_vars

(* ------------------------------------------------------------------ *)
(* The normalizer on its own: identify-plant applied to every object  *)
(* of a product of member values, and the client's reading of the     *)
(* answer.                                                            *)
(* ------------------------------------------------------------------ *)
Texts == {Undef, Str(""), Str("x")}

ProductObjects ==
    {Obj([identified |-> i, confidence |-> c, commonName |-> cn, scientificName |-> sn,
          about |-> ab, explanation |-> ex, wateringFrequencyDays |-> w,
          sunlight |-> su, soilType |-> so, nativeRegion |-> su, careLevel |-> so]) :
        i \in {Undef, Bool(FALSE), Bool(TRUE)},
        c \in {Undef, Num(-2), Num(0), Num(3), Num(5), Num(10), Num(15)},
        cn \in Texts, sn \in Texts, ab \in Texts, ex \in Texts,
        w \in {Undef, Num(0), Num(-30), Num(25), Num(50)},
        su \in {Undef, Str("Full sun")}, so \in {Undef, Str("Loam")}}

Descriptions ==
    {NoDescription, RosaDescription}
    \cup {[present |-> TRUE, chunks |-> c] :
            c \in {<<>>,
                   << "A shrub" >>,
                   << "A shrub", "." >>,
                   << "A shrub", ".", " ", "It has thorns" >>,
                   << "A shrub", ".", " ", "It has thorns", ".", " ", "Red" >>,
                   << ".", " ", ".", " " >>,
                   << "a", ".", " ", "b", ".", " ", "c", ".", " ", "d", ".", " ",
                      "e", ".", " ", "f", ".", " ", "g", "." >>}}

ProductSuggestions ==
    {Suggestion(name, p, cn, d, w) :
        name \in {Undef, Str(""), Str("Rosa")},
        p \in {Undef, Num(0), Num(3), Num(9), Num(15)},
        cn \in {Undef, Arr(<<>>), Arr(<< "" >>), Arr(<< "Rose", "Briar" >>)},
        d \in Descriptions,
        w \in {Undef, Num(0), Num(50)}}

NormReplies(p) ==
    IF p = "gemini"
    THEN {Reply("ok", 200, TRUE, << LBrace, Members(o), RBrace >>, <<>>) : o \in ProductObjects}
    ELSE {Reply("ok", 200, TRUE, <<>>, << sg >>) : sg \in ProductSuggestions}

NormInit ==
    /\ PipeInit
    /\ OtherIdle
    /\ HomeIdle
    /\ normStage = "input"
    /\ normReply \in NormReplies(provider)
    /\ normResp = NoResponse
    /\ normLog = <<>>

\* identify-plant answers the provider's reply.
NormAnswer ==
    /\ normStage = "input"
    /\ normResp' = IdentifyPlant(Str("b64"), TRUE, normReply)
    /\ normStage' = "answered"
    /\ UNCHANGED << provider, otherVars, homeVars, pipeVars, normReply, normLog >>

\* processImage reads the answer (lines 109-130).
NormDeliver ==
    /\ normStage = "answered"
    /\ normLog' = ClientCallbacks(Invoke(Call(TRUE, TRUE, normReply), normResp), 1)
    /\ normStage' = "delivered"
    /\ UNCHANGED << provider, otherVars, homeVars, pipeVars, normReply, normResp >>

\* The result of a Success is serialized and given to identify-plant again
\* as the provider's answer: for the Gemini variant as the text of the
\* model, for the PlantID variant as the body (it has no suggestions).
\* processImage then reads the second answer.
SerializedResult(body) ==
    IF provider = "gemini"
    THEN Reply("ok", 200, TRUE, << LBrace, Members(JsonRoundTrip(body)), RBrace >>, <<>>)
    ELSE Reply("ok", 200, FALSE, <<>>, <<>>)

NormRenormalize ==
    /\ normStage = "delivered"
    /\ Len(normLog) = 1
    /\ normLog[1].cb = "onIdentified"
    /\ normReply' = SerializedResult(normResp.body)
    /\ normResp' = IdentifyPlant(Str("b64"), TRUE, normReply')
    /\ normLog' = normLog \o ClientCallbacks(Invoke(Call(TRUE, TRUE, normReply'), normResp'), 1)
    /\ normStage' = "renormalized"
    /\ UNCHANGED << provider, otherVars, homeVars, pipeVars >>

NormNext == NormAnswer \/ NormDeliver \/ NormRenormalize

SpecNorm == NormInit /\ [][NormNext]_vars

(* ------------------------------------------------------------------ *)
(* Properties                                                         *)
(* ------------------------------------------------------------------ *)
\* The provider of the run's identify call was consulted: the function was
\* reached with an image and a configured key.
ProviderAsked(call, imageBase64) ==
    call.reached /\ call.key /\ Truthy(imageBase64)

\* The text is one JSON object with members, bare or with prose before and
\* after it.
HasObject(text) ==
    \/ Len(text) = 3 /\ text[1].k = "{" /\ text[2].k = "obj" /\ text[3].k = "}"
    \/ /\ Len(text) = 5
       /\ text[1].k = "word" /\ text[2].k = "{" /\ text[3].k = "obj"
       /\ text[4].k = "}" /\ text[5].k = "word"

TheObject(text) == IF Len(text) = 3 THEN text[2].o ELSE text[3].o

TheObjectOr(text) == IF Len(text) = 2 THEN EmptyObj ELSE TheObject(text)

Is2xx(status) == status >= 200 /\ status <= 299

\* identify-plant was invoked by the run and its answer is there.
Answered(r) == pc[r] \in {"identified", "done"} /\ Len(invoked[r]) = 2

\* The identification provider wrote an object with identified = false or
\* with a confidence below 0.5.
LowAnswer(r) ==
    /\ Answered(r)
    /\ provider = "gemini"
    /\ ProviderAsked(iIn[r], base64[r])
    /\ iIn[r].reply.kind = "ok"
    /\ iIn[r].reply.hasText
    /\ HasObject(iIn[r].reply.text)
    /\ LET o == TheObject(iIn[r].reply.text)
       IN \/ o["identified"] = Bool(FALSE)
          \/ o["confidence"].t = "number" /\ o["confidence"].n < 5

\* C1: an answer of the identification provider with confidence < 0.5 or
\* identified = false is answered by identify-plant with the LowConfidence
\* shape, and the client calls onError with the low-confidence message and
\* never onIdentified.
C1_GateLowConfidence ==
    \A r \in Runs :
        LowAnswer(r) =>
            /\ iResp[r].status = 200
            /\ iResp[r].body["lowConfidence"] = Bool(TRUE)
            /\ iResp[r].body["commonName"] = Undef
            /\ pc[r] = "identified" => log[r] = <<>>
            /\ pc[r] = "done" => log[r] = << OnError(LowConfidenceMessage) >>

C1_Witness ==
    \E r \in Runs :
        /\ LowAnswer(r)
        /\ pc[r] = "done"
        /\ Len(iIn[r].reply.text) = 5
        /\ TheObject(iIn[r].reply.text)["identified"] = Bool(FALSE)
        /\ TheObject(iIn[r].reply.text)["confidence"] = Num(9)
        /\ log[r] = << OnError(LowConfidenceMessage) >>

\* The verifier answered 200 with isPlant = false and without fallback = true.
VerifierSaysNotAPlant(r) ==
    /\ pc[r] \in {"verified", "identifying", "identified", "done"}
    /\ vIn[r].reached
    /\ vResp[r].status = 200
    /\ vResp[r].body["isPlant"] = Bool(FALSE)
    /\ vResp[r].body["fallback"] # Bool(TRUE)

\* C2: a verifier outcome with isPlant = false and fallback = false ends the
\* run with NotAPlant, and identify-plant is never invoked in that run.
C2_NotAPlantShortCircuit ==
    \A r \in Runs :
        VerifierSaysNotAPlant(r) =>
            /\ invoked[r] = << "verify-plant" >>
            /\ pc[r] \in {"verified", "done"}
            /\ pc[r] = "done" => log[r] = << OnError(NotAPlantMessage) >>

C2_Witness ==
    \E r \in Runs :
        /\ VerifierSaysNotAPlant(r)
        /\ pc[r] = "done"
        /\ log[r] = << OnError(NotAPlantMessage) >>

\* The verify call failed: no answer, an error status, or the classifier
\* call inside verify-plant failed.
VerifierFailed(r) ==
    /\ pc[r] \in {"identifying", "identified", "done"}
    /\ \/ ~vIn[r].reached
       \/ ~Is2xx(vResp[r].status)
       \/ vIn[r].reply.kind = "failed"

IdentifyCallFailed(r) ==
    /\ Answered(r)
    /\ \/ ~iIn[r].reached
       \/ ~Is2xx(iResp[r].status)

\* C3: after a failure of the verifier the run invokes identify-plant; it
\* does not end with NotAPlant, and it ends with the failure message only
\* when the identify call itself failed.
C3_VerifierFailsOpen ==
    \A r \in Runs :
        /\ pc[r] = "done" /\ Len(invoked[r]) = 1 =>
              /\ vIn[r].reached
              /\ Is2xx(vResp[r].status)
              /\ vIn[r].reply.kind \notin {"failed"}
        /\ VerifierFailed(r) =>
              /\ invoked[r] = << "verify-plant", "identify-plant" >>
              /\ pc[r] = "done" =>
                    /\ log[r] # << OnError(NotAPlantMessage) >>
                    /\ log[r] = << OnError(FailedMessage) >> => IdentifyCallFailed(r)

C3_Witness ==
    \E r \in Runs :
        /\ VerifierFailed(r)
        /\ vIn[r].reply.kind = "failed"
        /\ pc[r] = "done"
        /\ Len(log[r]) = 1
        /\ log[r][1].cb = "onIdentified"

FallbackBody ==
    Obj([isPlant |-> Bool(TRUE), confidence |-> Num(5), fallback |-> Bool(TRUE)])

\* C4: on a transport error (fetch throws) or a non-2xx status from the
\* classifier, verify-plant returns exactly
\* {isPlant: true, confidence: 0.5, fallback: true} with status 200, the same
\* body on both paths.
C4_SameFallbackBody ==
    \A r \in Runs :
        /\ pc[r] = "verified"
        /\ ProviderAsked(vIn[r], base64[r])
        /\ vIn[r].reply.kind \in {"throw", "status"}
        => vResp[r] = [status |-> 200, body |-> FallbackBody]

\* A VerificationOutcome: a boolean isPlant and a confidence in [0,1].
IsVerificationOutcome(body) ==
    /\ body["isPlant"].t = "boolean"
    /\ body["confidence"].t = "number"
    /\ body["confidence"].n >= 0
    /\ body["confidence"].n <= 10

\* C5, as stated: for every request carrying an image verify-plant answers
\* with a success status and a VerificationOutcome body, whatever fails
\* inside it, missing credentials included.
C5_NeverAnErrorStatus ==
    \A r \in Runs :
        pc[r] = "verified" /\ vIn[r].reached /\ Truthy(base64[r])
        => /\ vResp[r].status = 200
           /\ IsVerificationOutcome(vResp[r].body)

\* The classifier's text holds an object that JSON.parse accepts.
ClassifierWroteObject(reply) ==
    /\ reply.kind = "ok"
    /\ \/ HasObject(reply.content)
       \/ Len(reply.content) = 2 /\ reply.content[1].k = "{" /\ reply.content[2].k = "}"

\* C5, amended: for every request carrying an image, with the classifier's
\* credentials configured verify-plant answers 200 whatever fails inside it,
\* and its body is a VerificationOutcome with isPlant a boolean and
\* confidence 0.5 unless the classifier's text parsed as an object (the body
\* is then that object); with the credentials missing it answers 500 with
\* {error: "API key not configured"}.
C5_NeverAnErrorStatusWithKey ==
    \A r \in Runs :
        pc[r] = "verified" /\ vIn[r].reached /\ Truthy(base64[r])
        => IF vIn[r].key
           THEN /\ vResp[r].status = 200
                /\ IF ClassifierWroteObject(vIn[r].reply)
                   THEN vResp[r].body = TheObjectOr(vIn[r].reply.content)
                   ELSE /\ IsVerificationOutcome(vResp[r].body)
                        /\ vResp[r].body["confidence"] = Num(5)
           ELSE vResp[r] = [status |-> 500,
                            body |-> Obj([error |-> Str("API key not configured")])]

C5_Witness ==
    \E r \in Runs :
        /\ pc[r] = "verified"
        /\ ProviderAsked(vIn[r], base64[r])
        /\ vIn[r].reply.kind = "throw"
        /\ vResp[r].status = 200
        /\ vResp[r].body["isPlant"] = Bool(TRUE)

\* The identification step failed: no answer from identify-plant, a non-2xx
\* status of identify-plant, or a provider that could not be reached, that
\* answered with a non-2xx status or with a body that is not JSON.
IdentificationFailed(r) ==
    /\ Answered(r)
    /\ \/ IdentifyCallFailed(r)
       \/ /\ ProviderAsked(iIn[r], base64[r])
          /\ iIn[r].reply.kind \in {"throw", "status", "badjson"}

\* C6: a transport error or non-2xx status on the identification step ends
\* the run with TransientError (onError with the generic failure message),
\* never with Success, LowConfidence or NotAPlant.
C6_IdentifyFailureIsTransient ==
    \A r \in Runs :
        IdentificationFailed(r) =>
            /\ ~Is2xx(iResp[r].status)
            /\ pc[r] = "done" => log[r] = << OnError(FailedMessage) >>

C6_Witness ==
    \E r \in Runs :
        /\ pc[r] = "done"
        /\ ProviderAsked(iIn[r], base64[r])
        /\ iIn[r].reply.kind = "status"
        /\ iResp[r].status = 429
        /\ log[r] = << OnError(FailedMessage) >>

\* The provider's answer carries no text, or a text from which no object
\* can be parsed.
UnparseableAnswer(r) ==
    /\ Answered(r)
    /\ provider = "gemini"
    /\ ProviderAsked(iIn[r], base64[r])
    /\ iIn[r].reply.kind = "ok"
    /\ \/ ~iIn[r].reply.hasText
       \/ /\ ~HasObject(iIn[r].reply.text)
          /\ ~(Len(iIn[r].reply.text) = 2 /\ iIn[r].reply.text[1].k = "{"
               /\ iIn[r].reply.text[2].k = "}")

\* C7: when the provider's text holds no brace-delimited object, or the
\* extracted text does not deserialize, or there is no text at all,
\* identify-plant answers 200 with lowConfidence = true and the run ends with
\* LowConfidence, not with TransientError.
C7_ParseFailureIsLowConfidence ==
    \A r \in Runs :
        UnparseableAnswer(r) =>
            /\ iResp[r].status = 200
            /\ iResp[r].body["lowConfidence"] = Bool(TRUE)
            /\ pc[r] = "done" => log[r] = << OnError(LowConfidenceMessage) >>

C7_Witness ==
    \E r \in Runs :
        /\ UnparseableAnswer(r)
        /\ pc[r] = "done"
        /\ Len(iIn[r].reply.text) = 7
        /\ log[r] = << OnError(LowConfidenceMessage) >>

\* The outcome a callback stands for.
Outcome(entry) ==
    IF entry.cb = "onIdentified" THEN "Success"
    ELSE IF entry.message = NotAPlantMessage THEN "NotAPlant"
    ELSE IF entry.message = LowConfidenceMessage THEN "LowConfidence"
    ELSE IF entry.message = FailedMessage THEN "TransientError"
    ELSE "none"

\* C8: a finished run has made exactly one callback, onIdentified or onError,
\* standing for exactly one of Success, NotAPlant, LowConfidence and
\* TransientError; an unfinished run has made none.
C8_ExactlyOneOutcome ==
    \A r \in Runs :
        IF pc[r] = "done"
        THEN /\ Len(log[r]) = 1
             /\ Outcome(log[r][1]) \in {"Success", "NotAPlant", "LowConfidence", "TransientError"}
        ELSE log[r] = <<>>

C8_Witness ==
    \E r \in Runs :
        /\ pc[r] = "done"
        /\ Len(log[r]) = 1
        /\ Outcome(log[r][1]) = "Success"
        /\ invoked[r] = << "verify-plant", "identify-plant" >>

\* A value that is there and not empty.
NonEmpty(x) ==
    CASE x.t = "string" -> x.s # ""
      [] x.t = "array" -> x.a # <<>> /\ \A i \in 1..Len(x.a) : x.a[i] # ""
      [] x.t = "number" -> TRUE
      [] OTHER -> FALSE

ResultKeys == {"commonName", "scientificName", "about", "explanation",
               "additionalInfo", "wateringFrequencyDays", "probability"}

\* C9: every result emitted as Success has its seven fields present and
\* non-empty.
C9_SuccessIsComplete ==
    \A i \in 1..Len(normLog) :
        normLog[i].cb = "onIdentified" =>
            \A k \in ResultKeys : NonEmpty(normLog[i].data[k])

C9_Witness ==
    /\ normStage = "delivered"
    /\ provider = "gemini"
    /\ TheObject(normReply.text)["about"] = Undef
    /\ TheObject(normReply.text)["explanation"] = Str("")
    /\ TheObject(normReply.text)["commonName"] = Str("")
    /\ TheObject(normReply.text)["confidence"] = Undef
    /\ Len(normLog) = 1
    /\ normLog[1].cb = "onIdentified"

\* The provider's payload lacks every optional field.
BarePayload ==
    IF provider = "gemini"
    THEN normReply.text = << LBrace, Members(Obj([identified |-> Bool(TRUE)])), RBrace >>
    ELSE normReply.suggestions = << BareSuggestion >>

\* C10, as stated: a payload without any optional field gives commonName
\* "Unknown Plant", scientificName "Species unknown", wateringFrequencyDays 7,
\* probability 0.8 and the additionalInfo defaults 7 days, "Moderate to bright
\* indirect light" and "Well-draining potting mix".
C10_LiteralDefaults ==
    normStage = "delivered" /\ BarePayload =>
        /\ Len(normLog) = 1
        /\ normLog[1].cb = "onIdentified"
        /\ normLog[1].data["commonName"] = Str("Unknown Plant")
        /\ normLog[1].data["scientificName"] = Str("Species unknown")
        /\ normLog[1].data["wateringFrequencyDays"] = Num(70)
        /\ normLog[1].data["probability"] = Num(8)
        /\ SubSeq(normLog[1].data["additionalInfo"].a, 1, 3)
             = << "Watering: Every 7 days",
                  "Sunlight: Moderate to bright indirect light",
                  "Soil: Well-draining potting mix" >>
        /\ \A k \in ResultKeys : NonEmpty(normLog[1].data[k])

\* C10, amended: a payload without any optional field gives, from the Gemini
\* variant, commonName "Unknown Plant", scientificName "Species unknown",
\* wateringFrequencyDays 7, probability 0.8 and the additionalInfo defaults
\* 7 days, "Moderate indirect light", "Well-draining potting mix", "Various
\* regions", "Moderate"; from the PlantID variant, commonName and
\* scientificName "Unknown", wateringFrequencyDays 7, probability 0 and the
\* additionalInfo 7 days, "Moderate to bright indirect light", "Well-draining
\* potting mix", "Moderate growth rate", "Varies by species"; no field is
\* absent in either.
C10_LiteralDefaultsPerVariant ==
    normStage = "delivered" /\ BarePayload =>
        /\ Len(normLog) = 1
        /\ normLog[1].cb = "onIdentified"
        /\ \A k \in ResultKeys : NonEmpty(normLog[1].data[k])
        /\ normLog[1].data["wateringFrequencyDays"] = Num(70)
        /\ IF provider = "gemini"
           THEN /\ normLog[1].data["commonName"] = Str("Unknown Plant")
                /\ normLog[1].data["scientificName"] = Str("Species unknown")
                /\ normLog[1].data["probability"] = Num(8)
                /\ normLog[1].data["additionalInfo"].a
                     = << "Watering: Every 7 days",
                          "Sunlight: Moderate indirect light",
                          "Soil: Well-draining potting mix",
                          "Native to: Various regions",
                          "Care Level: Moderate" >>
           ELSE /\ normLog[1].data["commonName"] = Str("Unknown")
                /\ normLog[1].data["scientificName"] = Str("Unknown")
                /\ normLog[1].data["probability"] = Num(0)
                /\ normLog[1].data["additionalInfo"].a
                     = << "Watering: Every 7 days",
                          "Sunlight: Moderate to bright indirect light",
                          "Soil: Well-draining potting mix",
                          "Growth: Moderate growth rate",
                          "Native: Varies by species" >>

C10_Witness ==
    /\ normStage = "delivered"
    /\ BarePayload
    /\ provider = "plantid"
    /\ Len(normLog) = 1
    /\ normLog[1].cb = "onIdentified"
    /\ normLog[1].data["about"] = Str("No description available.")

\* The Gemini variant delivered a Success for the object the provider wrote.
GeminiSuccess ==
    /\ provider = "gemini"
    /\ normStage = "delivered"
    /\ Len(normLog) = 1
    /\ normLog[1].cb = "onIdentified"

\* C11: when exactly one of about and explanation is in the provider object,
\* the result's missing one has the value of the present one: a missing
\* explanation has the value of about, a missing about that of explanation.
C11_DerivedFromThePresentOne ==
    GeminiSuccess =>
        LET o == TheObject(normReply.text)
            res == normLog[1].data
        IN  /\ (o["about"] = Str("x") /\ o["explanation"] = Undef
                  => res["explanation"] = o["about"])
            /\ (o["explanation"] = Str("x") /\ o["about"] = Undef
                  => res["about"] = o["explanation"])

\* A number in [0, 1] (numbers are kept in tenths).
IsProbability(x) == x.t = "number" /\ x.n >= 0 /\ x.n <= 10

\* A whole number greater than 0 (numbers are kept in tenths).
IsPositiveInteger(x) == x.t = "number" /\ x.n > 0 /\ x.n % 10 = 0

\* C12: in every result emitted as Success, probability lies in [0, 1] and
\* wateringFrequencyDays is an integer greater than 0, whatever confidence and
\* wateringFrequencyDays the provider wrote (absent, zero, negative, above 1).
C12_NumbersInRange ==
    \A i \in 1..Len(normLog) :
        normLog[i].cb = "onIdentified" =>
            /\ IsProbability(normLog[i].data["probability"])
            /\ IsPositiveInteger(normLog[i].data["wateringFrequencyDays"])

\* C13: a canonical result, serialized and normalized again as the provider's
\* answer, gives a Success identical to it in every field.
C13_NormalizerIdempotent ==
    normStage = "renormalized" =>
        /\ Len(normLog) = 2
        /\ normLog[2].cb = "onIdentified"
        /\ \A k \in ResultKeys : normLog[2].data[k] = normLog[1].data[k]

\* C14: every 200 response of verify-plant carries a boolean isPlant and a
\* confidence in [0, 1], whatever text the classifier returned (an object
\* with other keys, an object without isPlant, unparseable text, no text).
C14_Every200IsAnOutcome ==
    \A r \in Runs :
        pc[r] = "verified" /\ vIn[r].reached /\ vResp[r].status = 200
        => IsVerificationOutcome(vResp[r].body)

(* ------------------------------------------------------------------ *)
(* The table public.plants and its row-level security policies        *)
(* (MyPlants.tsx 218-250).  auth.uid() of a request without a session *)
(* is NULL, and NULL = x is not true.                                 *)
(* ------------------------------------------------------------------ *)
Users == {"A", "B"}

Actors == Users \cup {"anon"}

\* auth.uid() = user_id
UidIs(actor, user_id) == actor # "anon" /\ actor = user_id

\* "Users can view their own plants": FOR SELECT USING.
SelectPolicy(actor, row) == UidIs(actor, row.user_id)

\* The rows a select of the actor sees.
Visible(actor) == {row \in plants : SelectPolicy(actor, row)}

(* ------------------------------------------------------------------ *)
(* The watering schedule (Dashboard.tsx, MyPlants.tsx).               *)
(*                                                                    *)
(* Time is counted in hours.  A timestamp of the table is an instant; *)
(* new Date(string) and toISOString() keep the instant.  getDate and  *)
(* setDate work on the local time of the browser, whose offset from   *)
(* UTC is 0 or 1 hour and changes at most once, at tz.at: forward     *)
(* ("spring", 0 to 1) or backward ("fall", 1 to 0).                   *)
(* ------------------------------------------------------------------ *)
MaxPlants == 2

Day == 24

PlantIds == 1..MaxPlants

Zones ==
    {[kind |-> "none", at |-> 0]}
    \cup {[kind |-> k, at |-> t] : k \in {"spring", "fall"}, t \in {-36, 36}}

ClockTimes == {0, 1}

\* Offset of local time from UTC at the instant t.
Offset(t) ==
    CASE tz.kind = "spring" -> IF t < tz.at THEN 0 ELSE 1
      [] tz.kind = "fall" -> IF t < tz.at THEN 1 ELSE 0
      [] OTHER -> 0

LocalTime(t) == t + Offset(t)

\* The instant of a local time; a local time that is skipped or repeated
\* at the change of offset is read with the offset before the change.
UTC(local) ==
    CASE tz.kind = "spring" -> IF local < tz.at + 1 THEN local ELSE local - 1
      [] tz.kind = "fall" -> IF local < tz.at + 1 THEN local - 1 ELSE local
      [] OTHER -> local

\* date.setDate(date.getDate() + days)
SetDatePlus(date, days) == UTC(LocalTime(date) + days * Day)

\* Math.floor(x / d) in place of Math.ceil.
DivCeil_Floor(x, d) == x \div d

\* Math.ceil(x / d), d > 0
DivCeil(x, d) == -((-x) \div d)

\* Dashboard.tsx 65-75
Dashboard_getDaysUntilWatering(lastWatered, frequency) ==
    LET lastWateredDate == lastWatered
        nextWateringDate == SetDatePlus(lastWateredDate, frequency)
        today == now
        diffTime == nextWateringDate - today
        diffDays == DivCeil(diffTime, Day)
    IN diffDays

\* getDaysUntilWatering of MyPlants without the frequency.
MyPlants_getDaysUntilWatering_NoFrequency(lastWatered, frequency) ==
    LET lastWateredDate == lastWatered
        nextWateringDate == SetDatePlus(lastWateredDate, 0)
        today == now
        diffTime == nextWateringDate - today
        diffDays == DivCeil(diffTime, Day)
    IN diffDays

\* MyPlants.tsx 81-91
MyPlants_getDaysUntilWatering(lastWatered, frequency) ==
    LET lastWateredDate == lastWatered
        nextWateringDate == SetDatePlus(lastWateredDate, frequency)
        today == now
        diffTime == nextWateringDate - today
        diffDays == DivCeil(diffTime, Day)
    IN diffDays

\* needsWater with a strict comparison.
Dashboard_needsWater_Strict(daysUntilWatering) == daysUntilWatering < 0

\* Dashboard.tsx 49
Dashboard_needsWater(daysUntilWatering) == daysUntilWatering <= 0

\* MyPlants.tsx 137
MyPlants_needsWater(daysUntilWatering) == daysUntilWatering <= 0

\* Dashboard.tsx 41-51: the task of a plant.
Task(plant) ==
    LET daysUntilWatering ==
            Dashboard_getDaysUntilWatering(plant.last_watered_at,
                                           plant.watering_frequency_days)
    IN [plant |-> plant,
        daysUntilWatering |-> daysUntilWatering,
        needsWater |-> Dashboard_needsWater(daysUntilWatering)]

\* MyPlants.tsx 132-137: the card of a plant.
Card(plant) ==
    LET daysUntilWatering ==
            MyPlants_getDaysUntilWatering(plant.last_watered_at,
                                          plant.watering_frequency_days)
    IN [plant |-> plant,
        daysUntilWatering |-> daysUntilWatering,
        needsWater |-> MyPlants_needsWater(daysUntilWatering)]

\* Dashboard.tsx 54: the comparator of the sort.
CompareTasks(a, b) == a.daysUntilWatering - b.daysUntilWatering

\* A task moved before the tasks that compare equal to it.
MovesBefore_Equal(t, e) == CompareTasks(e, t) >= 0

\* Array.prototype.sort is stable: a task moves before another one only
\* when the comparator puts that one after it.
MovesBefore(t, e) == CompareTasks(e, t) > 0

Front(q) == SubSeq(q, 1, Len(q) - 1)

RECURSIVE InsertTask(_, _)
InsertTask(sorted, t) ==
    IF sorted = <<>> THEN << t >>
    ELSE IF MovesBefore(t, sorted[Len(sorted)])
    THEN Append(InsertTask(Front(sorted), t), sorted[Len(sorted)])
    ELSE Append(sorted, t)

RECURSIVE SortTasks(_)
SortTasks(tasksData) ==
    IF tasksData = <<>> THEN <<>>
    ELSE InsertTask(SortTasks(Front(tasksData)), tasksData[Len(tasksData)])

\* Dashboard.tsx 102
overdueCount == Cardinality({i \in 1..Len(tasks) : tasks[i].needsWater})

\* The enumerations of a set of rows.
Enumerations(rows) ==
    {q \in [1..Cardinality(rows) -> rows] :
        \A i, j \in 1..Cardinality(rows) : i # j => q[i] # q[j]}

\* .order('last_watered_at', { ascending: true }): rows with the same
\* timestamp come in any order.
OrderByLastWatered(rows) ==
    {q \in Enumerations(rows) :
        \A i, j \in 1..Len(q) : i < j => q[i].last_watered_at <= q[j].last_watered_at}

\* .order('created_at', { ascending: false })
OrderByCreatedDesc(rows) ==
    {q \in Enumerations(rows) :
        \A i, j \in 1..Len(q) : i < j => q[i].created_at >= q[j].created_at}

\* A row as handleSavePlant inserts it: last_watered_at is the time of the
\* save, and so is created_at (DEFAULT NOW()).
SavedRow(id, user_id, frequency, savedAt) ==
    [id |-> id, user_id |-> user_id, common_name |-> "Rose", image_url |-> 1,
     watering_frequency_days |-> frequency,
     last_watered_at |-> savedAt, created_at |-> savedAt, updated_at |-> savedAt]

\* What may be saved under an id when the pages open: nothing, a plant of
\* the user to be watered every week and saved 0, 7 or 10 days ago, or
\* every day and saved 1 or 10 days ago, or a plant of another user.
RowChoices(id) ==
    {{}}
    \cup {{SavedRow(id, "A", 7, 0 - ago)} : ago \in {0, 168, 240}}
    \cup {{SavedRow(id, "A", 1, 0 - ago)} : ago \in {24, 240}}
    \cup {{SavedRow(id, "B", 7, 0 - 24)}}

Tables == {UNION {choice[id] : id \in PlantIds} :
              choice \in {c \in [PlantIds -> UNION {RowChoices(id) : id \in PlantIds}] :
                             \A id \in PlantIds : c[id] \in RowChoices(id)}}

SchedInit ==
    /\ PipeInit
    /\ OtherIdle
    /\ NormIdle
    /\ tz \in Zones
    /\ now = 0
    /\ plants \in Tables
    /\ session = "A"
    /\ tasks = <<>>
    /\ dashLoading = TRUE
    /\ fetched = <<>>
    /\ tasksAt = 0
    /\ cards = <<>>
    /\ myLoading = TRUE
    /\ cardsAt = 0
    /\ rlsLast = NoStatement

\* Time passes.
Tick ==
    /\ \E t \in ClockTimes : t > now /\ now' = t
    /\ UNCHANGED << provider, otherVars, pipeVars, normVars, plants, rlsLast, tz, session,
                    tasks, dashLoading, fetched, tasksAt, cards, myLoading, cardsAt >>

\* Dashboard.tsx 32-63: the query answers with the rows the session may
\* see, or with an error.
fetchTasks ==
    /\ \/ \E data \in OrderByLastWatered(Visible(session)) :
            /\ fetched' = data
            /\ tasks' = SortTasks([i \in 1..Len(data) |-> Task(data[i])])
            /\ tasksAt' = now
       \/ UNCHANGED << fetched, tasks, tasksAt >>
    /\ dashLoading' = FALSE
    /\ UNCHANGED << provider, otherVars, pipeVars, normVars, plants, rlsLast, tz, now, session,
                    cards, myLoading, cardsAt >>

\* MyPlants.tsx 29-45 and 132-137: the query, then the render of the list.
fetchPlants ==
    /\ \/ \E data \in OrderByCreatedDesc(Visible(session)) :
            /\ cards' = [i \in 1..Len(data) |-> Card(data[i])]
            /\ cardsAt' = now
       \/ UNCHANGED << cards, cardsAt >>
    /\ myLoading' = FALSE
    /\ UNCHANGED << provider, otherVars, pipeVars, normVars, plants, rlsLast, tz, now, session,
                    tasks, dashLoading, fetched, tasksAt >>

SchedNext == Tick \/ fetchTasks \/ fetchPlants

SpecSched == SchedInit /\ [][SchedNext]_vars

\* The plant was last watered a whole number of days (of 24 hours) before
\* the time at.
WholeDaysAgo(at, plant) ==
    at >= plant.last_watered_at /\ (at - plant.last_watered_at) % Day = 0

\* f - d for a plant watered d days before the time at.
FrequencyMinusElapsed(at, plant) ==
    plant.watering_frequency_days - (at - plant.last_watered_at) \div Day

\* C15, as stated: for a plant last watered d whole days before the time of
\* the computation, daysUntilWatering is f - d, in the Dashboard's tasks and
\* in the cards of MyPlants.
C15_FrequencyMinusElapsed ==
    /\ \A i \in 1..Len(tasks) :
          WholeDaysAgo(tasksAt, tasks[i].plant)
          => tasks[i].daysUntilWatering = FrequencyMinusElapsed(tasksAt, tasks[i].plant)
    /\ \A i \in 1..Len(cards) :
          WholeDaysAgo(cardsAt, cards[i].plant)
          => cards[i].daysUntilWatering = FrequencyMinusElapsed(cardsAt, cards[i].plant)

\* The offset of the browser's local time is the same at the last watering
\* and f times 24 hours later.
SameOffset(plant) ==
    Offset(plant.last_watered_at)
      = Offset(plant.last_watered_at + plant.watering_frequency_days * Day)

\* days is what getDaysUntilWatering owes for the plant at the time at: the
\* ceiling of the days from at to the next watering date, which lies within
\* an hour of f times 24 hours after the last watering; f - d or f - d + 1
\* when the plant was watered d whole days before, and f - d when the offset
\* of local time is the same at both ends.
DaysAsAmended(at, plant, days) ==
    LET nominal == plant.last_watered_at + plant.watering_frequency_days * Day
    IN /\ days * Day >= nominal - 1 - at
       /\ (days - 1) * Day < nominal + 1 - at
       /\ SameOffset(plant) =>
            /\ days * Day >= nominal - at
            /\ (days - 1) * Day < nominal - at
       /\ WholeDaysAgo(at, plant) =>
            /\ days >= FrequencyMinusElapsed(at, plant)
            /\ days <= FrequencyMinusElapsed(at, plant) + 1
            /\ SameOffset(plant) => days = FrequencyMinusElapsed(at, plant)

\* C15, amended: daysUntilWatering is the ceiling of (next watering date -
\* now) / 1 day, where the next watering date is the last watering moved f
\* days ahead on the browser's local calendar; for a plant watered d whole
\* days before it is f - d when the local offset from UTC is the same at the
\* last watering and f days later, and f - d or f - d + 1 otherwise.
C15_FrequencyMinusElapsedSameOffset ==
    /\ \A i \in 1..Len(tasks) :
          DaysAsAmended(tasksAt, tasks[i].plant, tasks[i].daysUntilWatering)
    /\ \A i \in 1..Len(cards) :
          DaysAsAmended(cardsAt, cards[i].plant, cards[i].daysUntilWatering)

C15_Witness ==
    /\ tz.kind = "fall"
    /\ \E i, j \in 1..Len(tasks) :
          /\ WholeDaysAgo(tasksAt, tasks[i].plant)
          /\ SameOffset(tasks[i].plant)
          /\ tasks[i].plant.watering_frequency_days = 7
          /\ tasks[i].plant.last_watered_at = tasksAt - 10 * Day
          /\ tasks[i].daysUntilWatering = -3
          /\ WholeDaysAgo(tasksAt, tasks[j].plant)
          /\ ~SameOffset(tasks[j].plant)
          /\ tasks[j].plant.last_watered_at = tasksAt - 7 * Day
          /\ tasks[j].daysUntilWatering = 1

PlaceIn(data, row) == CHOOSE i \in 1..Len(data) : data[i] = row

\* C17: the Dashboard's tasks are the fetched plants, each once, in ascending
\* order of daysUntilWatering; tasks with equal daysUntilWatering keep the
\* order of the query, which is ascending in last_watered_at.
C17_SortedStablePermutation ==
    /\ Len(tasks) = Len(fetched)
    /\ \A i \in 1..Len(fetched) :
          Cardinality({j \in 1..Len(tasks) : tasks[j].plant = fetched[i]}) = 1
    /\ \A i, j \in 1..Len(fetched) :
          i < j => fetched[i].last_watered_at <= fetched[j].last_watered_at
    /\ \A i, j \in 1..Len(tasks) :
          i < j =>
            /\ tasks[i].daysUntilWatering <= tasks[j].daysUntilWatering
            /\ tasks[i].daysUntilWatering = tasks[j].daysUntilWatering
                 => PlaceIn(fetched, tasks[i].plant) < PlaceIn(fetched, tasks[j].plant)

C17_Witness ==
    /\ Len(tasks) = 2
    /\ tasks[1].daysUntilWatering = tasks[2].daysUntilWatering
    /\ tasks[1].plant.last_watered_at < tasks[2].plant.last_watered_at
    /\ tasks[1].plant.id > tasks[2].plant.id

\* C18: the getDaysUntilWatering of the Dashboard and the one of MyPlants give
\* the same value for every last watering, frequency and current time, so a
\* task and a card of the same plant computed at the same time agree on
\* daysUntilWatering and on needsWater.
C18_SameInBothViews ==
    /\ \A row \in plants :
          Dashboard_getDaysUntilWatering(row.last_watered_at, row.watering_frequency_days)
            = MyPlants_getDaysUntilWatering(row.last_watered_at, row.watering_frequency_days)
    /\ tasksAt = cardsAt =>
          \A i \in 1..Len(tasks) : \A j \in 1..Len(cards) :
              tasks[i].plant = cards[j].plant =>
                 /\ tasks[i].daysUntilWatering = cards[j].daysUntilWatering
                 /\ tasks[i].needsWater = cards[j].needsWater

C18_Witness ==
    /\ now = 1
    /\ tasksAt = 1
    /\ cardsAt = 1
    /\ tz.kind = "spring"
    /\ \E i \in 1..Len(tasks) : \E j \in 1..Len(cards) :
          /\ tasks[i].plant = cards[j].plant
          /\ tasks[i].daysUntilWatering = 7
          /\ cards[j].daysUntilWatering = 7

\* The call of the run to identify-plant failed: no answer came, or one with
\* a status that is not 2xx.
IdentifyInvokeFailed(r) ==
    /\ Answered(r)
    /\ Invoke(iIn[r], iResp[r]).error

\* C19: a run of processImage invokes verify-plant at most once, then, only
\* after that call has been answered, identify-plant at most once, and
\* nothing else; a failed call is not repeated, and the failure is reported
\* to the caller once.
C19_AtMostTwoCallsNoRetry ==
    \A r \in Runs :
        /\ invoked[r] \in {<<>>, << "verify-plant" >>, << "verify-plant", "identify-plant" >>}
        /\ pc[r] \in {"verifying", "verified"} => invoked[r] = << "verify-plant" >>
        /\ Len(invoked[r]) = 2 => pc[r] \in {"identifying", "identified", "done"}
        /\ Len(log[r]) <= 1
        /\ IdentifyInvokeFailed(r) /\ pc[r] = "done"
             => log[r] = << OnError(FailedMessage) >>
        /\ Len(log[r]) = 1 => pc[r] = "done"

C19_Witness ==
    \E r \in Runs :
        /\ pc[r] = "done"
        /\ invoked[r] = << "verify-plant", "identify-plant" >>
        /\ vIn[r].reply.kind = "failed"
        /\ IdentifyInvokeFailed(r)
        /\ iIn[r].reply.kind = "status"
        /\ log[r] = << OnError(FailedMessage) >>

(* ------------------------------------------------------------------ *)
(* Statements on public.plants under row-level security               *)
(* (MyPlants.tsx 232-250).  A statement is issued with the identity   *)
(* of a user or without a session, names the rows it is about by id   *)
(* (0: no filter), and may carry any user_id.                         *)
(* ------------------------------------------------------------------ *)

\* "Users can insert their own plants": FOR INSERT WITH CHECK.
InsertPolicy(actor, row) == UidIs(actor, row.user_id)

\* "Users can update their own plants": FOR UPDATE USING.
UpdatePolicy(actor, row) == UidIs(actor, row.user_id)

\* An update policy whose USING expression is not applied to the new row.
UpdateWithCheck_None(actor, row) == TRUE

\* The update policy has no WITH CHECK expression: its USING expression is
\* applied to the new row as well.
UpdateWithCheck(actor, row) == UpdatePolicy(actor, row)

\* "Users can delete their own plants": FOR DELETE USING.
DeletePolicy(actor, row) == UidIs(actor, row.user_id)

\* A filter that lets every row through.
Matches_Any(filter, row) == TRUE

\* .eq('id', id), or no filter
Matches(filter, row) == filter = 0 \/ row.id = filter

Filters == {0} \cup PlantIds

Statement(actor, kind, ok, returned) ==
    [actor |-> actor, kind |-> kind, ok |-> ok, returned |-> returned]

\* The values an update may set.
Patches ==
    {[column |-> "last_watered_at", value |-> 1]}
    \cup {[column |-> "user_id", value |-> u] : u \in Users}

Patched(row, patch) ==
    IF patch.column = "user_id"
    THEN [row EXCEPT !.user_id = patch.value]
    ELSE [row EXCEPT !.last_watered_at = patch.value]

\* MyPlants.tsx 323-342: the trigger set_plants_updated_at, BEFORE UPDATE.
handle_updated_at(row) == [row EXCEPT !.updated_at = now]

StoreInit ==
    /\ PipeInit
    /\ OtherIdle
    /\ NormIdle
    /\ HomeIdle

StoreSelect(actor) ==
    \E filter \in Filters :
        /\ rlsLast' = Statement(actor, "select", TRUE,
                                {row \in Visible(actor) : Matches(filter, row)})
        /\ UNCHANGED << provider, otherVars, pipeVars, normVars, schedVars, plants >>

\* The primary key refuses a second row with the same id.
StoreInsert(actor) ==
    \E id \in PlantIds, user_id \in Users :
        LET row == SavedRow(id, user_id, 7, 0)
            ok == InsertPolicy(actor, row) /\ \A old \in plants : old.id # id
        IN /\ plants' = IF ok THEN plants \cup {row} ELSE plants
           /\ rlsLast' = Statement(actor, "insert", ok, {})
           /\ UNCHANGED << provider, otherVars, pipeVars, normVars, schedVars >>

\* The rows of the update are those the actor may see and update; when a
\* new row fails the check the statement fails and changes nothing.
StoreUpdate(actor) ==
    \E filter \in Filters, patch \in Patches :
        LET old == {row \in Visible(actor) : UpdatePolicy(actor, row) /\ Matches(filter, row)}
            ok == \A row \in old : UpdateWithCheck(actor, Patched(row, patch))
        IN /\ plants' = IF ok
                        THEN (plants \ old)
                             \cup {handle_updated_at(Patched(row, patch)) : row \in old}
                        ELSE plants
           /\ rlsLast' = Statement(actor, "update", ok, {})
           /\ UNCHANGED << provider, otherVars, pipeVars, normVars, schedVars >>

StoreDelete(actor) ==
    \E filter \in Filters :
        LET old == {row \in Visible(actor) : DeletePolicy(actor, row) /\ Matches(filter, row)}
        IN /\ plants' = plants \ old
           /\ rlsLast' = Statement(actor, "delete", TRUE, {})
           /\ UNCHANGED << provider, otherVars, pipeVars, normVars, schedVars >>

StoreNext ==
    \E actor \in Actors :
        \/ StoreSelect(actor)
        \/ StoreInsert(actor)
        \/ StoreUpdate(actor)
        \/ StoreDelete(actor)

SpecStore == StoreInit /\ [][StoreNext]_vars

\* The rows of the table that are not the actor's.
RowsOfOthers(table, actor) == {row \in table : row.user_id # actor}

\* C20: a statement issued under a user's identity returns no row of another
\* user and leaves the rows of the other users as they were: none created,
\* changed or removed, and none of the user's own rows handed to another
\* user by an update.
C20_RowIsolation ==
    [][ /\ \A row \in rlsLast'.returned : row.user_id = rlsLast'.actor
        /\ RowsOfOthers(plants', rlsLast'.actor) = RowsOfOthers(plants, rlsLast'.actor)
      ]_vars

C20_Witness ==
    /\ rlsLast.actor = "A"
    /\ rlsLast.kind = "update"
    /\ ~rlsLast.ok
    /\ \E row \in plants : row.user_id = "A" /\ row.last_watered_at = 1
    /\ \E row \in plants : row.user_id = "B"

\* No JSON object can be parsed out of the classifier's text: no brace to
\* brace match, or a match that JSON.parse refuses.
NothingParses(content) == Match(content) = <<>> \/ ~ParseOk(Match(content))

\* C22: whenever no JSON object can be parsed out of the classifier's text,
\* isPlant is true exactly when the text holds "true", "plant", "leaf" or
\* "flower" in any case, and false otherwise.
C22_KeywordDecidesWhenNothingParses ==
    \A r \in Runs :
        /\ pc[r] = "verified"
        /\ ProviderAsked(vIn[r], base64[r])
        /\ vIn[r].reply.kind = "ok"
        /\ NothingParses(vIn[r].reply.content)
        => vResp[r].body["isPlant"] = Bool(KeywordIsPlant(vIn[r].reply.content))

\* The PlantID variant has answered the one suggestion of the provider.
PlantIDAnswered ==
    /\ provider = "plantid"
    /\ normStage \in {"answered", "delivered"}
    /\ Len(normReply.suggestions) = 1

\* The first common name of a suggestion, undefined when there is none.
FirstCommonName(sg) ==
    IF sg.common_names.t = "array" /\ sg.common_names.a # <<>>
    THEN Str(sg.common_names.a[1]) ELSE Undef

\* C23: the PlantID variant maps the top suggestion to commonName = the first
\* common name (else the scientific name), scientificName = plant_name,
\* wateringFrequencyDays = watering.max (else 7), probability = the
\* suggestion's probability; about is the first two sentences of the
\* description split on ". " and explanation the up to four following ones;
\* the Rosa example gives "Rose", "A flowering shrub. It has thorns.", 5, 0.9.
C23_PlantIDMapping ==
    PlantIDAnswered =>
        LET sg == normReply.suggestions[1]
            res == normResp.body
        IN /\ normResp.status = 200
           /\ res["commonName"] = IF Truthy(FirstCommonName(sg))
                                  THEN FirstCommonName(sg) ELSE res["scientificName"]
           /\ Truthy(sg.plant_name) => res["scientificName"] = sg.plant_name
           /\ res["wateringFrequencyDays"] = IF Truthy(sg.watering_max)
                                             THEN sg.watering_max ELSE Num(70)
           /\ Truthy(sg.probability) => res["probability"] = sg.probability
           /\ sg.description = RosaDescription =>
                /\ res["about"] = Str("A flowering shrub. It has thorns.")
                /\ (sg.plant_name = Str("Rosa") /\ Truthy(FirstCommonName(sg))
                    /\ sg.watering_max = Num(50) /\ sg.probability = Num(9))
                   => /\ res["commonName"] = Str("Rose")
                      /\ res["scientificName"] = Str("Rosa")
                      /\ res["wateringFrequencyDays"] = Num(50)
                      /\ res["probability"] = Num(9)
           /\ (sg.description.present /\ Len(sg.description.chunks) = 21) =>
                /\ res["about"] = Str("a. b.")
                /\ res["explanation"] = Str("c. d. e. f.")

C23_Witness ==
    /\ PlantIDAnswered
    /\ normStage = "delivered"
    /\ normReply.suggestions[1].description = RosaDescription
    /\ normReply.suggestions[1].plant_name = Str("Rosa")
    /\ normReply.suggestions[1].probability = Num(9)
    /\ normReply.suggestions[1].watering_max = Num(50)
    /\ Len(normLog) = 1
    /\ normLog[1].cb = "onIdentified"
    /\ normLog[1].data["commonName"] = Str("Rose")
    /\ normLog[1].data["about"] = Str("A flowering shrub. It has thorns.")

\* A step of the run r of processImage.
RunStep(r) ==
    \/ ReadDone(r)
    \/ VerifyServe(r)
    \/ AfterVerify(r)
    \/ IdentifyServe(r)
    \/ AfterIdentify(r)

\* C25: every run of processImage finishes, however the read of the image
\* and the two calls end: a run that has started and not finished has a step
\* to take, and once every started run has finished loading is false and
\* loadingStep is ''.
C25_EveryRunFinishes ==
    /\ \A r \in Runs : pc[r] \notin {"idle", "done"} => ENABLED RunStep(r)
    /\ (\A r \in Runs : pc[r] \in {"idle", "done"}) => ~loading /\ loadingStep = ""


(* ------------------------------------------------------------------ *)
(* Two runs of processImage in one PlantIdentifier                    *)
(* ------------------------------------------------------------------ *)
PairRuns == {1, 2}

\* PipeInit with room for two runs.
PairInit ==
    /\ provider \in {"gemini", "plantid"}
    /\ loading = FALSE
    /\ loadingStep = ""
    /\ preview = 0
    /\ pc = [r \in PairRuns |-> "idle"]
    /\ file = [r \in PairRuns |-> "none"]
    /\ base64 = [r \in PairRuns |-> Undef]
    /\ vIn = [r \in PairRuns |-> NoCall]
    /\ vResp = [r \in PairRuns |-> NoResponse]
    /\ iIn = [r \in PairRuns |-> NoCall]
    /\ iResp = [r \in PairRuns |-> NoResponse]
    /\ invoked = [r \in PairRuns |-> <<>>]
    /\ log = [r \in PairRuns |-> <<>>]
    /\ result = 0
    /\ NormIdle
    /\ HomeIdle
    /\ OtherIdle

\* Answers of the classifier to the two runs: a failure, a plant, no plant.
PairVerifyReplies ==
    {reply \in VerifyReplies :
        \/ reply.kind = "throw"
        \/ /\ reply.kind = "ok"
           /\ reply.content \in
                {<< LBrace, Members(Obj([isPlant |-> b, confidence |-> Num(9)])), RBrace >> :
                    b \in {Bool(TRUE), Bool(FALSE)}}}

\* Answers of the identification provider to the two runs: a failure, a
\* confident identification, an identification below the threshold.
PairIdentifyReplies ==
    IF provider = "gemini"
    THEN {reply \in GeminiReplies :
            \/ reply.kind = "throw"
            \/ /\ reply.kind = "ok"
               /\ reply.content \in
                    {<< LBrace, Members([FullPlant EXCEPT !["identified"] = Bool(TRUE),
                                                          !["confidence"] = c]), RBrace >> :
                        c \in {Num(3), Num(9)}}}
    ELSE {reply \in PlantIDReplies :
            \/ reply.kind = "throw"
            \/ /\ reply.kind = "ok"
               /\ Len(reply.suggestions) = 1
               /\ reply.suggestions[1].plant_name = Str("Rosa")}

\* The calls that reach a function whose key is configured, or get no answer.
PairCalls(imageBase64, replies) == {call \in Calls(imageBase64, replies) : call.key}

PairVerifyServe(r) ==
    /\ pc[r] = "verifying"
    /\ \E call \in PairCalls(base64[r], PairVerifyReplies) : VerifyAnswers(r, call)

PairIdentifyServe(r) ==
    /\ pc[r] = "identifying"
    /\ \E call \in PairCalls(base64[r], PairIdentifyReplies) : IdentifyAnswers(r, call)

PairNext ==
    \E r \in PairRuns :
        \/ handleDrop(r)
        \/ handleFileSelect(r)
        \/ ReadDone(r)
        \/ PairVerifyServe(r)
        \/ AfterVerify(r)
        \/ PairIdentifyServe(r)
        \/ AfterIdentify(r)

SpecPair == PairInit /\ [][PairNext]_vars

InFlight(r) == pc[r] \in {"reading", "verifying", "verified", "identifying", "identified"}

\* The run waits for the answer of verify-plant or of identify-plant.
CallOutstanding(r) == pc[r] \in {"verifying", "identifying"}

\* C26: loading is true whenever a run of processImage has a call to
\* verify-plant or identify-plant outstanding, also when two runs overlap.
C26_LoadingWhileCallOutstanding == \A r \in PairRuns : CallOutstanding(r) => loading


\* The steps of run r.
PairStep(r) ==
    ReadDone(r) \/ PairVerifyServe(r) \/ AfterVerify(r) \/ PairIdentifyServe(r) \/ AfterIdentify(r)

\* The callbacks of a finished run, from its own image and the answers to
\* its own two calls.
OwnOutcome(r) ==
    LET verified == Invoke(vIn[r], vResp[r])
        res == Invoke(iIn[r], iResp[r])
    IN /\ Len(log[r]) = 1
       /\ IF RejectsAsNotAPlant(verified)
          THEN log[r][1].cb = "onError" /\ log[r][1].message = NotAPlantMessage
          ELSE IF res.error
          THEN log[r][1].cb = "onError" /\ log[r][1].message = FailedMessage
          ELSE IF Truthy(res.data["lowConfidence"]) \/ ~Truthy(res.data["commonName"])
          THEN log[r][1].cb = "onError" /\ log[r][1].message = LowConfidenceMessage
          ELSE /\ log[r][1].cb = "onIdentified"
               /\ log[r][1].data = res.data
               /\ log[r][1].imageUrl = r

\* A step in which run r hands its result to onIdentified.
HandsOver(r) == pc[r] = "identified" /\ pc'[r] = "done" /\ Delivers(log'[r])

\* A step in which run r sets its preview.
ShowsPreview(r) == pc[r] = "reading" /\ pc'[r] = "verifying"

\* C24: two runs of processImage are independent.  The callback of a
\* finished run and its argument follow from the run's own image and the
\* answers to its own calls; a run in flight can always take its next step
\* whatever the other run does; the result and the preview on display are
\* those of the run that set them last.
C24_RunsIndependent ==
    /\ [](\A r \in PairRuns :
            /\ pc[r] = "done" => OwnOutcome(r)
            /\ InFlight(r) => ENABLED PairStep(r))
    /\ [][\A r \in PairRuns :
            /\ HandsOver(r) => result' = r
            /\ ShowsPreview(r) => preview' = r]_vars

\* Both runs overlapped and both were identified: the second run showed its
\* preview last and the first run handed over its result last.
C24_Witness ==
    /\ \A r \in PairRuns : pc[r] = "done" /\ Delivers(log[r])
    /\ preview = 2
    /\ result = 1


(* ------------------------------------------------------------------ *)
(* CameraCapture (CameraCapture.tsx)                                  *)
(* ------------------------------------------------------------------ *)
\* The calls of getUserMedia one component makes.
MaxStreams == 3

\* Lines 46-51: stopCamera as seen by a closure whose stream is s; the
\* streams left with a live track.
StopTracks(tracks, s) == IF s # 0 THEN tracks \ {s} ELSE tracks

\* Lines 18-23 at mount: the effect of the first render calls startCamera,
\* whose stream is null, and getUserMedia is pending.
CamInit ==
    /\ PipeInit
    /\ NormIdle
    /\ HomeIdle
    /\ CareIdle
    /\ camMounted = TRUE
    /\ facingMode = "environment"
    /\ stream = 0
    /\ camError = FALSE
    /\ effectStream = 0
    /\ camVideo = 0
    /\ camRequests = 1
    /\ camPending = {1}
    /\ camLive = {}
    /\ camEnded = ""

\* Lines 28-39: getUserMedia resolves with the stream k.  The setters of
\* an unmounted component do nothing and videoRef.current is null when the
\* video element is not rendered.
GetUserMediaResolves(k) ==
    /\ k \in camPending
    /\ camPending' = camPending \ {k}
    /\ camLive' = camLive \cup {k}
    /\ IF camMounted
       THEN /\ stream' = k
            /\ camVideo' = IF camError THEN camVideo ELSE k
            /\ camError' = FALSE
       ELSE UNCHANGED << stream, camVideo, camError >>
    /\ UNCHANGED << provider, pipeVars, normVars, homeVars, careVars, camMounted, facingMode,
                    effectStream, camRequests, camEnded >>

\* Lines 40-43: getUserMedia rejects; the error card replaces the video.
GetUserMediaRejects(k) ==
    /\ k \in camPending
    /\ camPending' = camPending \ {k}
    /\ IF camMounted
       THEN camError' = TRUE /\ camVideo' = 0
       ELSE UNCHANGED << camError, camVideo >>
    /\ UNCHANGED << provider, pipeVars, normVars, homeVars, careVars, camMounted, facingMode, stream,
                    effectStream, camRequests, camLive, camEnded >>

\* Lines 77-79 and 18-23: the facing mode changes; the cleanup of the last
\* effect runs with the stream of the render of that effect, then the new
\* effect calls startCamera with the stream of the present render.
toggleCamera ==
    /\ camMounted
    /\ ~camError
    /\ camRequests < MaxStreams
    /\ facingMode' = IF facingMode = "environment" THEN "user" ELSE "environment"
    /\ camLive' = StopTracks(StopTracks(camLive, effectStream), stream)
    /\ stream' = 0
    /\ effectStream' = stream
    /\ camRequests' = camRequests + 1
    /\ camPending' = camPending \cup {camRequests + 1}
    /\ UNCHANGED << provider, pipeVars, normVars, homeVars, careVars, camMounted, camError, camVideo, camEnded >>

\* The parent stops rendering the component: the cleanup of the last
\* effect runs with the stream of the render of that effect.
Unmounting(how) ==
    /\ camMounted' = FALSE
    /\ camEnded' = how
    /\ stream' = 0
    /\ camVideo' = 0
    /\ UNCHANGED << provider, pipeVars, normVars, homeVars, careVars, facingMode, camError,
                    effectStream, camRequests, camPending >>

\* Lines 53-75: a frame of the video is delivered; the canvas of a video
\* without frames is empty and gives no blob.  PlantIdentifier 56-59: the
\* parent hides the camera.
handleCapture ==
    /\ camMounted
    /\ ~camError
    /\ camVideo # 0
    /\ camLive' = StopTracks(StopTracks(camLive, stream), effectStream)
    /\ Unmounting("captured")

\* Lines 81-84, PlantIdentifier 148.
handleClose ==
    /\ camMounted
    /\ camLive' = StopTracks(StopTracks(camLive, stream), effectStream)
    /\ Unmounting("closed")

\* PlantIdentifier is itself unmounted while the camera is shown.
Unmount ==
    /\ camMounted
    /\ camLive' = StopTracks(camLive, effectStream)
    /\ Unmounting("unmounted")

CamNext ==
    \/ \E k \in 1..MaxStreams : GetUserMediaResolves(k) \/ GetUserMediaRejects(k)
    \/ toggleCamera
    \/ handleCapture
    \/ handleClose
    \/ Unmount

SpecCamera == CamInit /\ [][CamNext]_vars

\* C27: once the camera was closed, a capture was delivered or the
\* component was unmounted, no acquired stream has a live track; while the
\* component is shown at most one acquired stream has.
C27_CameraReleased ==
    /\ camEnded # "" => camLive = {}
    /\ camMounted => Cardinality(camLive) <= 1


(* ------------------------------------------------------------------ *)
(* Saving, watering and deleting plants (Index, MyPlants, Dashboard)  *)
(* ------------------------------------------------------------------ *)
\* The water, complete and delete requests of one behaviour.
MaxOps == 2

\* A request to the store on its way: from is the page that made it, n the
\* number of the operation that caused it, at the client's time when it
\* was made; a query is first served (data is the answer) and then
\* delivered.
Request(op, from, n, id, at, row, served, ok, data) ==
    [op |-> op, from |-> from, n |-> n, id |-> id, at |-> at, row |-> row,
     served |-> served, ok |-> ok, data |-> data]

NoRow == SavedRow(0, "anon", 0, 0)

\* fetchPlants() / fetchTasks() up to its await.
Fetch(from, n) == Request("fetch", from, n, 0, 0, NoRow, FALSE, TRUE, <<>>)

\* Results a run of processImage may hand to Index: a plant to be watered
\* every day or every week.
IdentifiedResults ==
    {[FullPlant EXCEPT !["wateringFrequencyDays"] = Num(d)] : d \in {10, 70}}

\* The page that is open and what is saved at that moment: Index with a
\* plant of the user saved, or MyPlants or Dashboard with a plant of
\* another user saved as well.
CareStarts ==
    {[page |-> "index", plants |-> {SavedRow(1, "A", 7, 0 - 240)}]}
    \cup {[page |-> p,
           plants |-> {SavedRow(1, "A", 7, 0 - 240), SavedRow(2, "B", 7, 0 - 24)}] :
            p \in {"my-plants", "dashboard"}}

\* Time zones without a change of offset or with one ahead.
CareZones == {zone \in Zones : zone.kind = "none" \/ zone.at > 0}

CareInit ==
    /\ provider = "gemini"
    /\ PipeInit
    /\ NormIdle
    /\ CamIdle
    /\ tz \in CareZones
    /\ now = 0
    /\ \E start \in CareStarts : page = start.page /\ plants = start.plants
    /\ session = "A"
    /\ tasks = <<>>
    /\ dashLoading = TRUE
    /\ fetched = <<>>
    /\ tasksAt = 0
    /\ cards = <<>>
    /\ myLoading = TRUE
    /\ cardsAt = 0
    /\ rlsLast = NoStatement
    /\ saving = FALSE
    /\ inflight = IF page = "index" THEN {} ELSE {Fetch(page, 0)}
    /\ ops = 0
    /\ toast = ""
    /\ loadFailed = FALSE

\* PlantIdentifier.tsx 61-135 as a whole, on its path to onIdentified
\* (part_001 421: onIdentified is setResult).
onIdentified(r) ==
    /\ page = "index"
    /\ Fresh(r)
    /\ result = 0
    /\ \E data \in IdentifiedResults :
         log' = [log EXCEPT ![r] = << OnIdentified(data, r) >>]
    /\ pc' = [pc EXCEPT ![r] = "done"]
    /\ file' = [file EXCEPT ![r] = "read"]
    /\ base64' = [base64 EXCEPT ![r] = Str("b64")]
    /\ invoked' = [invoked EXCEPT ![r] = << "verify-plant", "identify-plant" >>]
    /\ preview' = r
    /\ result' = r
    /\ UNCHANGED << provider, normVars, homeVars, camVars, careVars,
                    loading, loadingStep, vIn, vResp, iIn, iResp >>

\* The result Index holds.
ResultOf(r) == log[r][Len(log[r])]

\* A number of days as the column watering_frequency_days holds it.
WholeDays(v) == v.n \div 10

\* The row of handleSavePlant with the time of an earlier watering.
InsertPayload_WateredEarlier(res, user_id, at) ==
    [id |-> 0, user_id |-> user_id, common_name |-> res.data["commonName"].s,
     image_url |-> res.imageUrl,
     watering_frequency_days |-> WholeDays(res.data["wateringFrequencyDays"]),
     last_watered_at |-> at - 10 * Day, created_at |-> 0, updated_at |-> 0]

\* The row of handleSavePlant under the id of another user.
InsertPayload_OtherUser(res, user_id, at) ==
    [id |-> 0, user_id |-> "B", common_name |-> res.data["commonName"].s,
     image_url |-> res.imageUrl,
     watering_frequency_days |-> WholeDays(res.data["wateringFrequencyDays"]),
     last_watered_at |-> at, created_at |-> 0, updated_at |-> 0]

\* part_001 237-245: the row handleSavePlant sends.
InsertPayload(res, user_id, at) ==
    [id |-> 0, user_id |-> user_id, common_name |-> res.data["commonName"].s,
     image_url |-> res.imageUrl,
     watering_frequency_days |-> WholeDays(res.data["wateringFrequencyDays"]),
     last_watered_at |-> at, created_at |-> 0, updated_at |-> 0]

\* MyPlants.tsx 219-230: the defaults of the columns left out.
InsertedRow(payload, id) ==
    [payload EXCEPT !.id = id, !.created_at = now, !.updated_at = now]

\* part_001 232-236: handleSavePlant up to its await; the button is shown
\* with a result and disabled while saving.
handleSavePlant ==
    /\ page = "index"
    /\ ~saving
    /\ result # 0
    /\ session # "anon"
    /\ saving' = TRUE
    /\ inflight' = inflight \cup
         {Request("insert", "index", 0, 0, now,
                  InsertPayload(ResultOf(result), session, now), FALSE, TRUE, <<>>)}
    /\ UNCHANGED << provider, pipeVars, normVars, homeVars, camVars, page, ops, toast, loadFailed >>

\* The least id not in use.
FreeId(id) ==
    /\ \A row \in plants : row.id # id
    /\ \A other \in PlantIds : other < id => \E row \in plants : row.id = other

\* part_001 246-257: the insert is answered.  On success Index navigates
\* to /my-plants, where MyPlants mounts and queries its list.
InsertResponds ==
    \E req \in inflight :
        /\ req.op = "insert"
        /\ \/ \E id \in PlantIds :
                /\ FreeId(id)
                /\ InsertPolicy(session, req.row)
                /\ plants' = plants \cup {InsertedRow(req.row, id)}
                /\ toast' = "Plant saved to your collection!"
                /\ result' = 0
                /\ page' = "my-plants"
                /\ cards' = <<>>
                /\ myLoading' = TRUE
                /\ inflight' = (inflight \ {req}) \cup {Fetch("my-plants", 0)}
           \/ /\ toast' = "Failed to save plant"
              /\ inflight' = inflight \ {req}
              /\ UNCHANGED << plants, result, page, cards, myLoading >>
        /\ saving' = FALSE
        /\ UNCHANGED << provider, runVars, normVars, camVars, rlsLast, tz, now, session, tasks,
                        dashLoading, fetched, tasksAt, cardsAt, ops, loadFailed >>

\* An update or a delete is sent for the plant id.
Sends(op, id) ==
    /\ ops < MaxOps
    /\ ops' = ops + 1
    /\ inflight' = inflight \cup
         {Request(op, page, ops + 1, id, now, NoRow, FALSE, TRUE, <<>>)}
    /\ UNCHANGED << provider, pipeVars, normVars, homeVars, camVars, page, saving, toast, loadFailed >>

\* MyPlants.tsx 47-53, from the button of a card.
handleWaterPlant(id) ==
    /\ page = "my-plants"
    /\ \E i \in 1..Len(cards) : cards[i].plant.id = id
    /\ Sends("update", id)

\* Dashboard.tsx 77-83, from the button of a task.
handleCompleteTask(id) ==
    /\ page = "dashboard"
    /\ \E i \in 1..Len(tasks) : tasks[i].plant.id = id
    /\ Sends("update", id)

\* MyPlants.tsx 64-70, from the button of a card.
handleDeletePlant(id) ==
    /\ page = "my-plants"
    /\ \E i \in 1..Len(cards) : cards[i].plant.id = id
    /\ Sends("delete", id)

\* The update of handleWaterPlant and handleCompleteTask.
WaterPatch(at) == [column |-> "last_watered_at", value |-> at]

\* MyPlants.tsx 54-61, Dashboard.tsx 84-91: the update is answered; on
\* success the list is queried again.
UpdateResponds ==
    \E req \in inflight :
        /\ req.op = "update"
        /\ \/ LET old == {row \in Visible(session) :
                            UpdatePolicy(session, row) /\ Matches(req.id, row)}
              IN /\ \A row \in old : UpdateWithCheck(session, Patched(row, WaterPatch(req.at)))
                 /\ plants' = (plants \ old)
                       \cup {handle_updated_at(Patched(row, WaterPatch(req.at))) : row \in old}
                 /\ toast' = IF req.from = "my-plants" THEN "Plant watered!" ELSE "Task completed!"
                 /\ inflight' = (inflight \ {req}) \cup {Fetch(req.from, req.n)}
           \/ /\ toast' = IF req.from = "my-plants" THEN "Failed to update watering"
                                                     ELSE "Failed to complete task"
              /\ inflight' = inflight \ {req}
              /\ UNCHANGED plants
        /\ UNCHANGED << provider, pipeVars, normVars, camVars, schedVars, rlsLast,
                        page, saving, ops, loadFailed >>

\* MyPlants.tsx 71-78: the delete is answered.
DeleteResponds ==
    \E req \in inflight :
        /\ req.op = "delete"
        /\ \/ LET old == {row \in Visible(session) :
                            DeletePolicy(session, row) /\ Matches(req.id, row)}
              IN /\ plants' = plants \ old
                 /\ toast' = "Plant removed"
                 /\ inflight' = (inflight \ {req}) \cup {Fetch(req.from, req.n)}
           \/ /\ toast' = "Failed to delete plant"
              /\ inflight' = inflight \ {req}
              /\ UNCHANGED plants
        /\ UNCHANGED << provider, pipeVars, normVars, camVars, schedVars, rlsLast,
                        page, saving, ops, loadFailed >>

\* The store runs the query of fetchPlants or fetchTasks, or fails.
FetchServed ==
    \E req \in inflight :
        /\ req.op = "fetch"
        /\ ~req.served
        /\ \/ \E data \in (IF req.from = "my-plants"
                           THEN OrderByCreatedDesc(Visible(session))
                           ELSE OrderByLastWatered(Visible(session))) :
                inflight' = (inflight \ {req}) \cup {[req EXCEPT !.served = TRUE, !.data = data]}
           \/ inflight' = (inflight \ {req}) \cup {[req EXCEPT !.served = TRUE, !.ok = FALSE]}
        /\ UNCHANGED << provider, pipeVars, normVars, camVars, homeVars,
                        page, saving, ops, toast, loadFailed >>

\* MyPlants.tsx 36-44, Dashboard.tsx 39-62: the answer of the query arrives.
FetchDelivered ==
    \E req \in inflight :
        /\ req.op = "fetch"
        /\ req.served
        /\ inflight' = inflight \ {req}
        /\ IF req.ok
           THEN UNCHANGED << toast, loadFailed >>
           ELSE /\ toast' = IF req.from = "my-plants" THEN "Failed to load plants"
                                                       ELSE "Failed to load care schedule"
                /\ loadFailed' = TRUE
        /\ IF req.from = "my-plants"
           THEN /\ IF req.ok
                   THEN /\ cards' = [i \in 1..Len(req.data) |-> Card(req.data[i])]
                        /\ cardsAt' = now
                   ELSE UNCHANGED << cards, cardsAt >>
                /\ myLoading' = FALSE
                /\ UNCHANGED << fetched, tasks, tasksAt, dashLoading >>
           ELSE /\ IF req.ok
                   THEN /\ fetched' = req.data
                        /\ tasks' = SortTasks([i \in 1..Len(req.data) |-> Task(req.data[i])])
                        /\ tasksAt' = now
                   ELSE UNCHANGED << fetched, tasks, tasksAt >>
                /\ dashLoading' = FALSE
                /\ UNCHANGED << cards, cardsAt, myLoading >>
        /\ UNCHANGED << provider, pipeVars, normVars, camVars, plants, rlsLast, tz, now, session,
                        page, saving, ops >>

CareNext ==
    \/ Tick
    \/ \E r \in Runs : onIdentified(r)
    \/ handleSavePlant
    \/ InsertResponds
    \/ \E id \in PlantIds : handleWaterPlant(id) \/ handleCompleteTask(id) \/ handleDeletePlant(id)
    \/ UpdateResponds
    \/ DeleteResponds
    \/ FetchServed
    \/ FetchDelivered

SpecCare == CareInit /\ [][CareNext]_vars


\* The requests answered in a step.
AnsweredNow == {req \in inflight : req \notin inflight' /\ req.op # "fetch"}

\* The ids in the table.
IdsOf(rows) == {row.id : row \in rows}

\* C21 as stated: a row that changes is the row of an update of
\* handleWaterPlant or handleCompleteTask, and it changes in last_watered_at
\* only; the update leaves every other row as it is.
C21_ChangesOnlyLastWatered ==
    [][/\ \A old \in plants : \A new \in plants' :
             new.id = old.id /\ new # old =>
                 /\ \E req \in AnsweredNow : req.op = "update" /\ req.id = old.id
                 /\ new = [old EXCEPT !.last_watered_at = new.last_watered_at]
       /\ \A req \in AnsweredNow : req.op = "update" =>
             /\ IdsOf(plants') = IdsOf(plants)
             /\ \A row \in plants : row.id # req.id => row \in plants']_vars

\* C21, amended: a row that changes is the row of an update of
\* handleWaterPlant or handleCompleteTask for its id, made by its owner; it
\* changes in last_watered_at, which becomes the time of the request, and
\* in updated_at, which the trigger sets, and in no other column; the
\* update leaves every other row as it is and adds or removes none.
C21_ChangesOnlyWateringColumns ==
    [][/\ \A old \in plants : \A new \in plants' :
             new.id = old.id /\ new # old =>
                 /\ old.user_id = session
                 /\ \E req \in AnsweredNow :
                       /\ req.op = "update"
                       /\ req.id = old.id
                       /\ new = [old EXCEPT !.last_watered_at = req.at, !.updated_at = now]
       /\ \A req \in AnsweredNow : req.op = "update" =>
             /\ IdsOf(plants') = IdsOf(plants)
             /\ \A row \in plants : row.id # req.id => row \in plants']_vars

\* A plant of the user was watered after it was saved, next to a plant of
\* another user that was not.
C21_Witness ==
    \E row, other \in plants :
        /\ row.user_id = session
        /\ row.last_watered_at > row.created_at
        /\ row.updated_at >= row.last_watered_at
        /\ other.user_id # session
        /\ other.last_watered_at = other.created_at
        /\ other.updated_at = other.created_at

\* The plants on display.
Displayed ==
    IF page = "my-plants"
    THEN {cards[i].plant : i \in 1..Len(cards)}
    ELSE {tasks[i].plant : i \in 1..Len(tasks)}

\* C28: once no request is on its way (and no query of the list failed),
\* the list of MyPlants or Dashboard shows the rows of the store.
C28_ListEqualsStore ==
    (page # "index" /\ inflight = {} /\ ~loadFailed) => Displayed = Visible(session)

\* daysUntilWatering of a row now.
DaysNow(row) ==
    MyPlants_getDaysUntilWatering(row.last_watered_at, row.watering_frequency_days)

\* The rows written in a step.
Written == plants' \ plants

\* C29 as stated: a row saved or watered at this moment has
\* daysUntilWatering = watering_frequency_days and needsWater false, in
\* MyPlants and in Dashboard.
C29_FullIntervalAfterWatering ==
    \A row \in plants :
        row.last_watered_at = now =>
            /\ Card(row).daysUntilWatering = row.watering_frequency_days
            /\ Task(row).daysUntilWatering = row.watering_frequency_days
            /\ ~Card(row).needsWater
            /\ ~Task(row).needsWater

\* C29, amended: the row a save or a watering writes has as last_watered_at
\* the client's time of the request; at that time needsWater is false and
\* daysUntilWatering is watering_frequency_days when the offset of local
\* time is the same f days later, and that or one more when it is not.
C29_FullIntervalSameOffset ==
    /\ [](\A row \in plants :
            row.last_watered_at = now =>
                /\ Card(row) = Task(row)
                /\ ~Card(row).needsWater
                /\ Card(row).daysUntilWatering
                      \in {row.watering_frequency_days, row.watering_frequency_days + 1}
                /\ SameOffset(row) =>
                      Card(row).daysUntilWatering = row.watering_frequency_days)
    /\ [][\A req \in AnsweredNow : req.op \in {"insert", "update"} =>
             \A row \in Written : row.last_watered_at = req.at /\ req.at <= now]_vars

\* A plant saved this hour and a plant watered this hour, one of them with
\* a change of offset ahead.
C29_Witness ==
    \E saved, watered \in plants :
        /\ saved.last_watered_at = now
        /\ saved.created_at = now
        /\ watered.last_watered_at = now
        /\ watered.created_at < now
        /\ SameOffset(saved)
        /\ ~SameOffset(watered)
        /\ Card(watered).daysUntilWatering = watered.watering_frequency_days + 1

\* C30: handleSavePlant sends its insert only with a result and a session,
\* under the session's user id; when the insert fails the result and the
\* page stay and no row is written; when it succeeds the result becomes
\* null, the page becomes /my-plants and the row written belongs to the
\* session's user; either way saving is false again.
C30_SaveOutcomes ==
    [][/\ \A req \in inflight' \ inflight : req.op = "insert" =>
             /\ result # 0
             /\ session # "anon"
             /\ req.row.user_id = session
             /\ saving'
       /\ \A req \in AnsweredNow : req.op = "insert" =>
             /\ saving' = FALSE
             /\ IF toast' = "Plant saved to your collection!"
                THEN /\ result' = 0
                     /\ page' = "my-plants"
                     /\ \E row \in Written :
                           /\ Written = {row}
                           /\ row.user_id = session
                           /\ row.id \notin IdsOf(plants)
                ELSE /\ toast' = "Failed to save plant"
                     /\ result' = result
                     /\ page' = page
                     /\ plants' = plants
       /\ \A row \in Written : row.id \notin IdsOf(plants) =>
             \E req \in AnsweredNow : req.op = "insert"]_vars

\* A save failed and the result is still on display, not saving.
C30_Witness ==
    /\ toast = "Failed to save plant"
    /\ page = "index"
    /\ result # 0
    /\ ~saving
    /\ inflight = {}

====
